---------------------------- MODULE Spec2Model ----------------------------
(***************************************************************************)
(* Model of the colour-substitution engine of icon-paint-bucket            *)
(* (src/src/utils/colorMapper.js).                                         *)
(*                                                                         *)
(* Text is modelled at the character level: a JavaScript string is a       *)
(* sequence of one-character strings, so the regular expressions of the    *)
(* source (substring matches, greedy scans, case-insensitive literals) are *)
(* modelled by what they do on the text.  The JavaScript value undefined   *)
(* and the value null are the one-element sequences Undefined and Null,    *)
(* which are no text (their element is not a character).                   *)
(***************************************************************************)
EXTENDS Integers, Sequences, FiniteSets, TLC

VARIABLES
    pc,          \* "ready": the inputs are chosen; "done": the call has returned;
                 \* "reapplied" | "repeated": a second call has returned
    call,        \* which function the behaviour calls: "replaceColor" | "recolorSvg"
    color,       \* replaceColor: the colour token passed in
    brand,       \* the palette: [primary, secondary, accent]
    mode,        \* the colour mode
    gradientId,  \* the gradient id the call generates (Null outside gradient mode)
    shape,       \* recolorSvg: how the markup is built (construct, property, quote, padding, head)
    svgString,   \* recolorSvg: the markup passed in
    result,      \* the value returned by the call
    gradientId2, \* the gradient id a second call generates
    again,       \* the value returned by a second call
    app,         \* the state of the App component (React state)
    store,       \* the browser's stores: localStorage keys and the IndexedDB icon store
    tasks        \* the handleFilesAdded calls in flight

vars == <<pc, call, color, brand, mode, gradientId, shape, svgString, result,
          gradientId2, again, app, store, tasks>>

\* the variables of the colour functions and those of the App component
colorVars == <<pc, call, color, brand, mode, gradientId, shape, svgString, result,
               gradientId2, again>>
appVars == <<app, store, tasks>>

\* no App component is mounted
NoApp == /\ app = [mounted |-> FALSE]
         /\ store = [mounted |-> FALSE]
         /\ tasks = <<>>

---------------------------------------------------------------------------
(* JavaScript values and strings *)

Undefined == <<"undefined">>
Null == <<"null">>

\* JavaScript truthiness of a string-or-absent value: '', undefined and null are falsy.
Truthy(v) == v # Undefined /\ v # Null /\ v # <<>>

\* Template-literal / String() conversion of a string-or-undefined value.
ToStr(v) ==
    IF v = Undefined THEN <<"u","n","d","e","f","i","n","e","d">>
    ELSE IF v = Null THEN <<"n","u","l","l">>
    ELSE v

UpperChars == <<"A","B","C","D","E","F","G","H","I","J","K","L","M",
                "N","O","P","Q","R","S","T","U","V","W","X","Y","Z">>
LowerChars == <<"a","b","c","d","e","f","g","h","i","j","k","l","m",
                "n","o","p","q","r","s","t","u","v","w","x","y","z">>
UpperSet == {UpperChars[i] : i \in 1..26}
LowerMap == [c \in UpperSet |-> LowerChars[CHOOSE i \in 1..26 : UpperChars[i] = c]]

LowerChar(c) == IF c \in UpperSet THEN LowerMap[c] ELSE c

\* String.prototype.toLowerCase
ToLowerCase(s) == [i \in 1..Len(s) |-> LowerChar(s[i])]

\* the characters the regular-expression class \s matches
WhiteSpace == {" ", "\t", "\n", "\r", "\f"}
IsWs(c) == c \in WhiteSpace

DecDigits == <<"0","1","2","3","4","5","6","7","8","9">>
HexDigits == <<"0","1","2","3","4","5","6","7","8","9","a","b","c","d","e","f">>
DecSet == {DecDigits[i] : i \in 1..10}
HexSet == {HexDigits[i] : i \in 1..16}
HexMap == [c \in HexSet |-> (CHOOSE i \in 1..16 : HexDigits[i] = c) - 1]
IsDigit(c) == c \in DecSet
IsHex(c) == LowerChar(c) \in HexSet
HexVal(c) == HexMap[LowerChar(c)]

\* the characters the regular-expression class \w matches
LowerSet == {LowerChars[i] : i \in 1..26}
IsWord(c) == c \in UpperSet \/ c \in LowerSet \/ IsDigit(c) \/ c = "_"

\* The value of a JavaScript const: Only({ e : x \in {v} }) is e with x bound
\* to the value of v, which is computed once however often e uses x.
Only(S) == CHOOSE r \in S : TRUE

\* the least position of a set of positions; 0 when the set is empty
MinOf(hits) ==
    IF hits = {} THEN 0
    ELSE CHOOSE x \in hits : \A y \in hits : x <= y

\* the first position >= i holding a character of the set cs; 0 when there is none
IndexOfCharFrom(s, cs, i) ==
    IF i > Len(s) THEN 0
    ELSE Only({ IF j = Len(s) + 1 THEN 0 ELSE j :
                j \in { CHOOSE x \in i..(Len(s) + 1) :
                            /\ (x = Len(s) + 1 \/ s[x] \in cs)
                            /\ \A k \in i..(x - 1) : s[k] \notin cs } })

\* the position after the run of characters of the set cs that starts at i
\* (i itself when s[i] is not in cs)
RunEnd(s, cs, i) ==
    IF i > Len(s) THEN Len(s) + 1
    ELSE CHOOSE x \in i..(Len(s) + 1) :
            /\ (x = Len(s) + 1 \/ s[x] \notin cs)
            /\ \A k \in i..(x - 1) : s[k] \in cs

\* the first position >= i of s that holds no white space (Len(s) + 1 when none)
FirstNonWs(s, i) == RunEnd(s, WhiteSpace, i)

\* the last position <= i of s that holds no white space (0 when none)
LastNonWs(s, i) ==
    CHOOSE x \in 0..i :
        /\ (x = 0 \/ ~IsWs(s[x]))
        /\ \A k \in (x + 1)..i : IsWs(s[k])

\* String.prototype.trim
Trim(s) == SubSeq(s, FirstNonWs(s, 1), LastNonWs(s, Len(s)))

\* s.replace(/\s+/g, '')
RemoveWs(s) == SelectSeq(s, LAMBDA c : ~IsWs(c))

\* two characters are equal (up to letter case when ci)
SameChar(c, d, ci) == IF ci THEN LowerChar(c) = LowerChar(d) ELSE c = d

\* s, at position i, reads the literal lit (case-insensitively when ci)
LitAt(s, i, lit, ci) ==
    \/ Len(lit) = 0
    \/ /\ i + Len(lit) - 1 <= Len(s)
       /\ SameChar(s[i], lit[1], ci)
       /\ \A k \in 2..Len(lit) : SameChar(s[i + k - 1], lit[k], ci)

\* the first position >= i where lit occurs in s; 0 when there is none
IndexOfFrom(s, lit, i, ci) ==
    MinOf({k \in i..(Len(s) - Len(lit) + 1) : LitAt(s, k, lit, ci)})

\* the positions >= i of s that hold the first character of the literal lit
\* (up to letter case): where a case-insensitive match of lit can start
LitStarts(s, i, lit) == {k \in i..Len(s) : LowerChar(s[k]) = LowerChar(lit[1])}

Contains(s, lit) == IndexOfFrom(s, lit, 1, FALSE) # 0

\* the concatenation of the strings of a sequence
RECURSIVE Concat(_)
Concat(ss) == IF ss = <<>> THEN <<>> ELSE Head(ss) \o Concat(Tail(ss))

---------------------------------------------------------------------------
(* Classification tables *)

\* white, #fff, #ffffff, none, transparent, rgb(255, 255, 255), rgb(255,255,255)
PRESERVED_COLORS ==
  << <<"w","h","i","t","e">>,
     <<"#","f","f","f">>,
     <<"#","f","f","f","f","f","f">>,
     <<"n","o","n","e">>,
     <<"t","r","a","n","s","p","a","r","e","n","t">>,
     <<"r","g","b","(","2","5","5",","," ","2","5","5",","," ","2","5","5",")">>,
     <<"r","g","b","(","2","5","5",",","2","5","5",",","2","5","5",")">> >>

\* #000, #000000, black, #333, #333333, #111, #111111, #222, #222222,
\* rgb(0, 0, 0), rgb(0,0,0), rgb(51, 51, 51), rgb(51,51,51)
PrimaryColors ==
  << <<"#","0","0","0">>,
     <<"#","0","0","0","0","0","0">>,
     <<"b","l","a","c","k">>,
     <<"#","3","3","3">>,
     <<"#","3","3","3","3","3","3">>,
     <<"#","1","1","1">>,
     <<"#","1","1","1","1","1","1">>,
     <<"#","2","2","2">>,
     <<"#","2","2","2","2","2","2">>,
     <<"r","g","b","(","0",","," ","0",","," ","0",")">>,
     <<"r","g","b","(","0",",","0",",","0",")">>,
     <<"r","g","b","(","5","1",","," ","5","1",","," ","5","1",")">>,
     <<"r","g","b","(","5","1",",","5","1",",","5","1",")">> >>

\* #666, #666666, #808080, gray, grey, #777, #777777, #888, #888888, #999, #999999,
\* rgb(128, 128, 128), rgb(128,128,128), rgb(102, 102, 102), rgb(102,102,102)
SecondaryColors ==
  << <<"#","6","6","6">>,
     <<"#","6","6","6","6","6","6">>,
     <<"#","8","0","8","0","8","0">>,
     <<"g","r","a","y">>,
     <<"g","r","e","y">>,
     <<"#","7","7","7">>,
     <<"#","7","7","7","7","7","7">>,
     <<"#","8","8","8">>,
     <<"#","8","8","8","8","8","8">>,
     <<"#","9","9","9">>,
     <<"#","9","9","9","9","9","9">>,
     <<"r","g","b","(","1","2","8",","," ","1","2","8",","," ","1","2","8",")">>,
     <<"r","g","b","(","1","2","8",",","1","2","8",",","1","2","8",")">>,
     <<"r","g","b","(","1","0","2",","," ","1","0","2",","," ","1","0","2",")">>,
     <<"r","g","b","(","1","0","2",",","1","0","2",",","1","0","2",")">> >>

\* a plausible change: 'gray', a colour of the secondary list, is listed among
\* the accent colours as well
AccentColors_withGray ==
  << <<"g","r","a","y">>,
     <<"#","c","c","c">>,
     <<"l","i","g","h","t","g","r","a","y">>,
     <<"s","i","l","v","e","r">> >>

\* #ccc, #cccccc, #ddd, #dddddd, #eee, #eeeeee, #aaa, #aaaaaa, #bbb, #bbbbbb,
\* lightgray, lightgrey, silver, rgb(204, 204, 204), rgb(204,204,204)
AccentColors ==
  << <<"#","c","c","c">>,
     <<"#","c","c","c","c","c","c">>,
     <<"#","d","d","d">>,
     <<"#","d","d","d","d","d","d">>,
     <<"#","e","e","e">>,
     <<"#","e","e","e","e","e","e">>,
     <<"#","a","a","a">>,
     <<"#","a","a","a","a","a","a">>,
     <<"#","b","b","b">>,
     <<"#","b","b","b","b","b","b">>,
     <<"l","i","g","h","t","g","r","a","y">>,
     <<"l","i","g","h","t","g","r","e","y">>,
     <<"s","i","l","v","e","r">>,
     <<"r","g","b","(","2","0","4",","," ","2","0","4",","," ","2","0","4",")">>,
     <<"r","g","b","(","2","0","4",",","2","0","4",",","2","0","4",")">> >>

\* Object.entries(COLOR_MAPPINGS): the roles in insertion order
COLOR_MAPPINGS ==
  << [role |-> "primary",   colors |-> PrimaryColors],
     [role |-> "secondary", colors |-> SecondaryColors],
     [role |-> "accent",    colors |-> AccentColors] >>

\* a plausible change: a lighter outline, #5A5A5A, which isDarkColor does not
\* take for dark
DUOTONE_OUTLINE_notDark == <<"#","5","A","5","A","5","A">>

\* #2D2D2D
DUOTONE_OUTLINE == <<"#","2","D","2","D","2","D">>

NoRole == "null"

---------------------------------------------------------------------------
(* Colour classifier *)

\* a plausible slip: the token is lower-cased and trimmed, inner whitespace stays
normalizeColor_keepsInnerSpace(c) ==
    IF ~Truthy(c) THEN <<>>
    ELSE Trim(ToLowerCase(c))

\* normalizeColor: '' for a falsy argument, else lower-cased, trimmed, whitespace removed
normalizeColor(c) ==
    IF ~Truthy(c) THEN <<>>
    ELSE Only({ RemoveWs(Trim(lower)) : lower \in {ToLowerCase(c)} })

\* the entries of a table, each passed through normalizeColor
NormalizedList(colors) == {normalizeColor(colors[i]) : i \in 1..Len(colors)}
PreservedNormalized == NormalizedList(PRESERVED_COLORS)
RoleNormalized == [k \in 1..Len(COLOR_MAPPINGS) |-> NormalizedList(COLOR_MAPPINGS[k].colors)]

\* a plausible slip: the token is compared as written, not normalized
shouldPreserve_asWritten(c) == \E i \in 1..Len(PRESERVED_COLORS) : PRESERVED_COLORS[i] = c

\* shouldPreserve: PRESERVED_COLORS.some((p) => normalizeColor(p) === normalized)
shouldPreserve(c) == normalizeColor(c) \in PreservedNormalized

\* getColorRole: the first role, in table order, whose list holds the normalized token
RECURSIVE RoleFrom(_, _)
RoleFrom(normalized, k) ==
    IF k > Len(COLOR_MAPPINGS) THEN NoRole
    ELSE IF normalized \in RoleNormalized[k]
         THEN COLOR_MAPPINGS[k].role
         ELSE RoleFrom(normalized, k + 1)

getColorRole(c) ==
    Only({ RoleFrom(normalized, 1) : normalized \in {normalizeColor(c)} })

\* Number.NaN, the result of parseInt on a string with no leading number: an
\* integer no channel can take (a two-digit hexadecimal number is within -15..255)
NaN == 0 - 99999

\* the null returned by parseColorToRgb
NoRgb == [null |-> TRUE]

\* parseInt(s, 16) of a two-character slice: an optional sign, an optional 0x
\* prefix, then the longest run of hexadecimal digits; NaN when that run is empty
ParseHex2(s) ==
    IF Len(s) = 0 THEN NaN
    ELSE IF s[1] \in {"+", "-"}
         THEN IF Len(s) = 2 /\ IsHex(s[2])
              THEN (IF s[1] = "-" THEN 0 - HexVal(s[2]) ELSE HexVal(s[2]))
              ELSE NaN
    ELSE IF ~IsHex(s[1]) THEN NaN
    ELSE IF Len(s) = 1 THEN HexVal(s[1])
    ELSE IF s[1] = "0" /\ LowerChar(s[2]) = "x" THEN NaN
    ELSE IF IsHex(s[2]) THEN 16 * HexVal(s[1]) + HexVal(s[2])
    ELSE HexVal(s[1])

\* the end of the run of decimal digits that starts at i (i - 1 when there is none)
DigitsEnd(s, i) == RunEnd(s, DecSet, i) - 1

\* parseInt(s, 10) of a run of decimal digits
RECURSIVE ParseDec(_)
ParseDec(s) ==
    IF s = <<>> THEN 0
    ELSE 10 * ParseDec(SubSeq(s, 1, Len(s) - 1)) + HexVal(s[Len(s)])

\* /rgb\((\d+),(\d+),(\d+)\)/ tried at position i: the three groups, or <<>>
RgbMatchAt(s, i) ==
    IF ~LitAt(s, i, <<"r","g","b","(">>, FALSE) THEN <<>>
    ELSE LET a1 == i + 4
             e1 == DigitsEnd(s, a1)
         IN  IF e1 < a1 \/ e1 + 1 > Len(s) \/ s[e1 + 1] # "," THEN <<>>
             ELSE LET a2 == e1 + 2
                      e2 == DigitsEnd(s, a2)
                  IN  IF e2 < a2 \/ e2 + 1 > Len(s) \/ s[e2 + 1] # "," THEN <<>>
                      ELSE LET a3 == e2 + 2
                               e3 == DigitsEnd(s, a3)
                           IN  IF e3 < a3 \/ e3 + 1 > Len(s) \/ s[e3 + 1] # ")"
                               THEN <<>>
                               ELSE << SubSeq(s, a1, e1), SubSeq(s, a2, e2),
                                       SubSeq(s, a3, e3) >>

\* normalized.match(/rgb\((\d+),(\d+),(\d+)\)/): the leftmost match, or <<>>
RgbMatchFrom(s, i) ==
    Only({ IF j = 0 THEN <<>> ELSE RgbMatchAt(s, j) :
           j \in {MinOf({k \in i..Len(s) : RgbMatchAt(s, k) # <<>>})} })

\* parseColorToRgb: [r, g, b], or NoRgb (null) when the token does not parse
parseColorToRgb(c) ==
    IF ~Truthy(c) THEN NoRgb
    ELSE Only({
           LET hex3 == SubSeq(normalized, 2, Len(normalized))
               hex == IF Len(hex3) = 3
                      THEN <<hex3[1], hex3[1], hex3[2], hex3[2], hex3[3], hex3[3]>>
                      ELSE hex3
           IN  IF Len(normalized) > 0 /\ normalized[1] = "#" /\ Len(hex) = 6
               THEN [r |-> ParseHex2(SubSeq(hex, 1, 2)),
                     g |-> ParseHex2(SubSeq(hex, 3, 4)),
                     b |-> ParseHex2(SubSeq(hex, 5, 6))]
               ELSE Only({ IF rgbMatch # <<>>
                           THEN [r |-> ParseDec(rgbMatch[1]),
                                 g |-> ParseDec(rgbMatch[2]),
                                 b |-> ParseDec(rgbMatch[3])]
                           ELSE NoRgb :
                           rgbMatch \in {RgbMatchFrom(normalized, 1)} }) :
           normalized \in {normalizeColor(c)} })

Abs(x) == IF x < 0 THEN 0 - x ELSE x
Max3(x, y, z) ==
    IF x >= y /\ x >= z THEN x ELSE IF y >= z THEN y ELSE z

\* an arithmetic expression over a NaN channel is NaN, and NaN compares false
HasNaN(rgb) == rgb.r = NaN \/ rgb.g = NaN \/ rgb.b = NaN

\* the chromaticity threshold of isChromatic
ChromaThreshold == 10

\* a plausible slip: a token without an RGB value counts as chromatic
isChromatic_unparsedIsChromatic(c) ==
    \E rgb \in {parseColorToRgb(c)} :
        IF rgb = NoRgb THEN TRUE
        ELSE IF HasNaN(rgb) THEN TRUE
        ELSE Max3(Abs(rgb.r - rgb.g), Abs(rgb.g - rgb.b), Abs(rgb.r - rgb.b))
                > ChromaThreshold

\* isChromatic: the largest pairwise channel difference exceeds the threshold
isChromatic(c) ==
    \E rgb \in {parseColorToRgb(c)} :
        IF rgb = NoRgb THEN FALSE
        ELSE IF HasNaN(rgb) THEN FALSE
        ELSE Max3(Abs(rgb.r - rgb.g), Abs(rgb.g - rgb.b), Abs(rgb.r - rgb.b))
                > ChromaThreshold

\* the darkness threshold of isDarkColor
DarkThreshold == 80

\* r * 0.299 + g * 0.587 + b * 0.114 is computed in double precision, each
\* product and each sum rounded. Over channels 0..255 the rounded sum is on the
\* same side of 80 as the exact sum, except where the exact sum is 80: of these
\* 95 colours, the 9 below give 79.99999999999999 and the others give 80.
LuminanceRoundedDown ==
    { <<13, 105, 127>>, <<28, 96, 134>>, <<46, 108, 25>>, <<69, 79, 114>>,
      <<84, 70, 121>>, <<87, 91, 5>>, <<99, 61, 128>>, <<125, 53, 101>>,
      <<166, 36, 81>> }

\* isDarkColor: luminance r*0.299 + g*0.587 + b*0.114 below the threshold
\* (the weights are scaled by 1000 to stay in the integers, the rounding of
\* the doubles is taken from LuminanceRoundedDown)
isDarkColor(c) ==
    \E rgb \in {parseColorToRgb(c)} :
        IF rgb = NoRgb THEN FALSE
        ELSE IF HasNaN(rgb) THEN FALSE
        ELSE \E exact \in {rgb.r * 299 + rgb.g * 587 + rgb.b * 114} :
                \/ exact < DarkThreshold * 1000
                \/ /\ exact = DarkThreshold * 1000
                   /\ <<rgb.r, rgb.g, rgb.b>> \in LuminanceRoundedDown

---------------------------------------------------------------------------
(* Role resolver *)

IsDuotone(m) == m = "duo-primary" \/ m = "duo-secondary"

\* `url(#${gradientId})`
UrlRef(gid) == <<"u","r","l","(","#">> \o ToStr(gid) \o <<")">>

\* a plausible slip: the duotone branch tests darkness before chromaticity
duotoneColor_darkFirst(c, role, b, m) ==
    LET accentColor == IF m = "duo-primary" THEN b.primary ELSE b.secondary
    IN  IF role = "primary" THEN DUOTONE_OUTLINE
        ELSE IF role = "secondary" \/ role = "accent" THEN accentColor
        ELSE IF isDarkColor(c) THEN DUOTONE_OUTLINE
        ELSE accentColor

\* a plausible slip: the duotone branch leaves a token it cannot parse alone
duotoneColor_keepsUnparsed(c, role, b, m) ==
    LET accentColor == IF m = "duo-primary" THEN b.primary ELSE b.secondary
    IN  IF role = "primary" THEN DUOTONE_OUTLINE
        ELSE IF role = "secondary" \/ role = "accent" THEN accentColor
        ELSE IF parseColorToRgb(c) = NoRgb THEN c
        ELSE IF isChromatic(c) THEN accentColor
        ELSE IF isDarkColor(c) THEN DUOTONE_OUTLINE
        ELSE accentColor

\* replaceColor, duotone modes: dark outline + coloured accent
duotoneColor(c, role, b, m) ==
    LET accentColor == IF m = "duo-primary" THEN b.primary ELSE b.secondary
    IN  IF role = "primary" THEN DUOTONE_OUTLINE
        ELSE IF role = "secondary" \/ role = "accent" THEN accentColor
        ELSE IF isChromatic(c) THEN accentColor
        ELSE IF isDarkColor(c) THEN DUOTONE_OUTLINE
        ELSE accentColor

\* a plausible slip: the primary role always takes the palette's primary colour
primaryRoleColor_ignoresMode(b, m, gid) ==
    IF m = "gradient" /\ Truthy(gid) THEN UrlRef(gid) ELSE b.primary

\* replaceColor, standard modes, primary role: the mode chooses the replacement
primaryRoleColor(b, m, gid) ==
    IF m = "gradient" /\ Truthy(gid) THEN UrlRef(gid)
    ELSE IF m = "secondary" THEN b.secondary
    ELSE b.primary

\* a plausible slip: the secondary and accent roles follow the mode as well
standardColor_roleByMode(c, role, b, m, gid) ==
    IF role = "primary" THEN primaryRoleColor(b, m, gid)
    ELSE IF role = "secondary" /\ Truthy(b.secondary)
         THEN (IF m = "secondary" THEN b.secondary ELSE b.primary)
    ELSE IF role = "accent" /\ Truthy(b.accent)
         THEN (IF m = "secondary" THEN b.secondary ELSE b.accent)
    ELSE IF isChromatic(c)
         THEN IF m = "secondary" THEN b.secondary ELSE b.primary
    ELSE c

\* a plausible slip: an unmapped chromatic colour follows the primary role,
\* gradient reference included
standardColor_chromaticAsPrimaryRole(c, role, b, m, gid) ==
    IF role = "primary" THEN primaryRoleColor(b, m, gid)
    ELSE IF role = "secondary" /\ Truthy(b.secondary) THEN b.secondary
    ELSE IF role = "accent" /\ Truthy(b.accent) THEN b.accent
    ELSE IF isChromatic(c) THEN primaryRoleColor(b, m, gid)
    ELSE c

\* replaceColor, standard modes
standardColor(c, role, b, m, gid) ==
    IF role = "primary" THEN primaryRoleColor(b, m, gid)
    ELSE IF role = "secondary" /\ Truthy(b.secondary) THEN b.secondary
    ELSE IF role = "accent" /\ Truthy(b.accent) THEN b.accent
    ELSE IF isChromatic(c)
         THEN IF m = "secondary" THEN b.secondary ELSE b.primary
    ELSE c

\* replaceColor(color, brand, mode, gradientId)
replaceColor(color_, b, m, gid) ==
    Only({ IF ~Truthy(c) \/ shouldPreserve(c) THEN c
           ELSE Only({ IF IsDuotone(m) THEN duotoneColor(c, role, b, m)
                       ELSE standardColor(c, role, b, m, gid) :
                       role \in {getColorRole(c)} }) :
           c \in {color_} })

---------------------------------------------------------------------------
(* Markup rewriter: inline styles *)

\* fill, stroke, stop-color, color, background, background-color, in this order
colorProps ==
  << <<"f","i","l","l">>,
     <<"s","t","r","o","k","e">>,
     <<"s","t","o","p","-","c","o","l","o","r">>,
     <<"c","o","l","o","r">>,
     <<"b","a","c","k","g","r","o","u","n","d">>,
     <<"b","a","c","k","g","r","o","u","n","d","-","c","o","l","o","r">> >>

NoMatch == [ok |-> FALSE]

\* new RegExp(`(${prop})\\s*:\\s*([^;]+)`, 'gi') tried at position i:
\* the property name as written, the value, and the last position of the match
StyleDeclMatchAt(s, i, prop) ==
    IF ~LitAt(s, i, prop, TRUE) THEN NoMatch
    ELSE LET j  == FirstNonWs(s, i + Len(prop))
         IN  IF j > Len(s) \/ s[j] # ":" THEN NoMatch
             ELSE LET k  == FirstNonWs(s, j + 1)
                      \* [^;]+ needs one character: when the greedy \s* ran up to a
                      \* ';' or the end, it gives its last blank back
                      vs == IF k <= Len(s) /\ s[k] # ";" THEN k
                            ELSE IF k > j + 1 THEN k - 1 ELSE 0
                      semi == IF vs = 0 THEN 0 ELSE IndexOfCharFrom(s, {";"}, vs)
                      ve == IF semi = 0 THEN Len(s) ELSE semi - 1
                  IN  IF vs = 0 THEN NoMatch
                      ELSE [ok |-> TRUE,
                            property |-> SubSeq(s, i, i + Len(prop) - 1),
                            value |-> SubSeq(s, vs, ve),
                            last |-> ve]

\* the replacement callback of processInlineStyle: `${property}:${newColor}`
StyleDeclReplacement(mt, b, m, gid) ==
    mt.property \o <<":">> \o ToStr(replaceColor(Trim(mt.value), b, m, gid))

\* updatedStyle.replace(regex, callback) for one property: every match, left to
\* right, the scan resuming after each match
RECURSIVE ReplaceDeclFrom(_, _, _, _, _, _)
ReplaceDeclFrom(s, i, prop, b, m, gid) ==
    Only({ IF j = 0 THEN SubSeq(s, i, Len(s))
           ELSE Only({ SubSeq(s, i, j - 1) \o StyleDeclReplacement(mt, b, m, gid)
                       \o ReplaceDeclFrom(s, mt.last + 1, prop, b, m, gid) :
                       mt \in {StyleDeclMatchAt(s, j, prop)} }) :
           j \in {MinOf({k \in LitStarts(s, i, prop) :
                            StyleDeclMatchAt(s, k, prop).ok})} })

\* colorProps.forEach: one pass per property, each over the result of the one before
RECURSIVE StylePasses(_, _, _, _, _, _)
StylePasses(style, props, k, b, m, gid) ==
    IF k > Len(props) THEN style
    ELSE Only({ StylePasses(updatedStyle, props, k + 1, b, m, gid) :
                updatedStyle \in {ReplaceDeclFrom(style, 1, props[k], b, m, gid)} })

\* processInlineStyle(style, brand, mode, gradientId)
processInlineStyle(style, b, m, gid) ==
    IF ~Truthy(style) THEN style
    ELSE StylePasses(style, colorProps, 1, b, m, gid)

---------------------------------------------------------------------------
(* Markup rewriter: gradient definition *)

\* a plausible change: the gradient definition carries a fixed id, gradient-0
gradientDefOf_fixedId(b, gid) ==
    <<"\n"," "," "," "," ","<","l","i","n","e","a","r","G","r","a","d","i","e","n","t"," ","i","d","=","\"">> \o <<"g","r","a","d","i","e","n","t","-","0">>
    \o <<"\""," ","x","1","=","\"","0","%","\""," ","y","1","=","\"","0","%","\""," ","x","2","=","\"","1","0","0","%","\""," ","y","2","=","\"","1","0","0","%","\"",">">>
    \o <<"\n"," "," "," "," "," "," ","<","s","t","o","p"," ","o","f","f","s","e","t","=","\"","0","%","\""," ","s","t","y","l","e","=","\"","s","t","o","p","-","c","o","l","o","r",":">> \o ToStr(b.primary)
    \o <<";","s","t","o","p","-","o","p","a","c","i","t","y",":","1","\""," ","/",">">>
    \o <<"\n"," "," "," "," "," "," ","<","s","t","o","p"," ","o","f","f","s","e","t","=","\"","1","0","0","%","\""," ","s","t","y","l","e","=","\"","s","t","o","p","-","c","o","l","o","r",":">> \o ToStr(b.secondary)
    \o <<";","s","t","o","p","-","o","p","a","c","i","t","y",":","1","\""," ","/",">">>
    \o <<"\n"," "," "," "," ","<","/","l","i","n","e","a","r","G","r","a","d","i","e","n","t",">">>

\* the template literal gradientDef of recolorSvg
gradientDefOf(b, gid) ==
    <<"\n"," "," "," "," ","<","l","i","n","e","a","r","G","r","a","d","i","e","n","t"," ","i","d","=","\"">> \o ToStr(gid)
    \o <<"\""," ","x","1","=","\"","0","%","\""," ","y","1","=","\"","0","%","\""," ","x","2","=","\"","1","0","0","%","\""," ","y","2","=","\"","1","0","0","%","\"",">">>
    \o <<"\n"," "," "," "," "," "," ","<","s","t","o","p"," ","o","f","f","s","e","t","=","\"","0","%","\""," ","s","t","y","l","e","=","\"","s","t","o","p","-","c","o","l","o","r",":">> \o ToStr(b.primary)
    \o <<";","s","t","o","p","-","o","p","a","c","i","t","y",":","1","\""," ","/",">">>
    \o <<"\n"," "," "," "," "," "," ","<","s","t","o","p"," ","o","f","f","s","e","t","=","\"","1","0","0","%","\""," ","s","t","y","l","e","=","\"","s","t","o","p","-","c","o","l","o","r",":">> \o ToStr(b.secondary)
    \o <<";","s","t","o","p","-","o","p","a","c","i","t","y",":","1","\""," ","/",">">>
    \o <<"\n"," "," "," "," ","<","/","l","i","n","e","a","r","G","r","a","d","i","e","n","t",">">>

\* /<name[^>]*>([\s\S]*?)<\/name>/i tried at position i: the positions of the
\* '>' closing the opening tag, of the closing tag, and the last of the match
BlockMatchAt(s, i, open, close) ==
    IF ~LitAt(s, i, open, TRUE) THEN NoMatch
    ELSE Only({
           IF gt = 0 THEN NoMatch
           ELSE Only({ IF ct = 0 THEN NoMatch
                       ELSE [ok |-> TRUE, first |-> i, gt |-> gt, ct |-> ct,
                             content |-> SubSeq(s, gt + 1, ct - 1),
                             last |-> ct + Len(close) - 1] :
                       ct \in {IndexOfFrom(s, close, gt + 1, TRUE)} }) :
           gt \in {IndexOfCharFrom(s, {">"}, i + Len(open))} })

\* the leftmost match of the block pattern at or after position i
BlockMatchFrom(s, i, open, close) ==
    Only({ IF j = 0 THEN NoMatch ELSE BlockMatchAt(s, j, open, close) :
           j \in {MinOf({k \in LitStarts(s, i, open) :
                            BlockMatchAt(s, k, open, close).ok})} })

DefsOpen  == <<"<","d","e","f","s">>
DefsClose == <<"<","/","d","e","f","s",">">>
DefsTag   == <<"<","d","e","f","s",">">>
SvgOpen   == <<"<","s","v","g">>

\* /(<svg[^>]*>)/i: the leftmost '<svg' that a '>' follows; the position of that '>'
SvgTagEndFrom(s, i) ==
    Only({ IF j = 0 THEN 0 ELSE IndexOfCharFrom(s, {">"}, j + Len(SvgOpen)) :
           j \in {MinOf({k \in LitStarts(s, i, SvgOpen) :
                            /\ LitAt(s, k, SvgOpen, TRUE)
                            /\ IndexOfCharFrom(s, {">"}, k + Len(SvgOpen)) # 0})} })

\* the replacement of the first <defs>...</defs> block:
\* `<defs>${defsContent}${gradientDef}</defs>`
DefsReplacement(mt, gradientDef) ==
    DefsTag \o mt.content \o gradientDef \o DefsClose

\* recolorSvg, gradient mode: the gradient definition goes into the first
\* <defs>...</defs> block, or else into a new <defs> after the <svg ...> tag
injectGradient(s, b, gid) ==
    Only({
        IF defs.ok
        THEN SubSeq(s, 1, defs.first - 1) \o DefsReplacement(defs, gradientDef)
             \o SubSeq(s, defs.last + 1, Len(s))
        ELSE Only({ IF svgEnd # 0
                    THEN SubSeq(s, 1, svgEnd) \o DefsTag \o gradientDef \o DefsClose
                         \o SubSeq(s, svgEnd + 1, Len(s))
                    ELSE s :
                    svgEnd \in {SvgTagEndFrom(s, 1)} }) :
        gradientDef \in {gradientDefOf(b, gid)},
        defs \in {BlockMatchFrom(s, 1, DefsOpen, DefsClose)} })

---------------------------------------------------------------------------
(* Markup rewriter: attributes and style attributes *)

\* fill, stroke, stop-color, in this order
colorAttributes ==
  << <<"f","i","l","l">>,
     <<"s","t","r","o","k","e">>,
     <<"s","t","o","p","-","c","o","l","o","r">> >>

StyleName == <<"s","t","y","l","e">>

Quotes == {"\"", "'"}

\* new RegExp(`(${attr})\\s*=\\s*["']([^"']+)["']`, 'gi') tried at position i:
\* the attribute name as written, the value, the quote that opens the value,
\* and the last position of the match
AttrMatchAt(s, i, attr) ==
    IF ~LitAt(s, i, attr, TRUE) THEN NoMatch
    ELSE LET j == FirstNonWs(s, i + Len(attr))
         IN  IF j > Len(s) \/ s[j] # "=" THEN NoMatch
             ELSE LET k == FirstNonWs(s, j + 1)
                      q == IF k > Len(s) THEN 0 ELSE IndexOfCharFrom(s, Quotes, k + 1)
                  IN  IF k > Len(s) \/ s[k] \notin Quotes \/ q = 0 \/ q = k + 1
                      THEN NoMatch
                      ELSE [ok |-> TRUE,
                            attribute |-> SubSeq(s, i, i + Len(attr) - 1),
                            value |-> SubSeq(s, k + 1, q - 1),
                            quote |-> s[k],
                            last |-> q]

\* a plausible change: the value is written back between the quotes it came in
AttrReplacement_keepQuote(mt, b, m, gid) ==
    mt.attribute \o <<"=", mt.quote>> \o ToStr(replaceColor(mt.value, b, m, gid))
    \o <<mt.quote>>

\* the replacement callback of the attribute pass: `${attribute}="${newColor}"`
AttrReplacement(mt, b, m, gid) ==
    mt.attribute \o <<"=", "\"">> \o ToStr(replaceColor(mt.value, b, m, gid))
    \o <<"\"">>

\* result.replace(regex, callback) for one attribute name
RECURSIVE ReplaceAttrFrom(_, _, _, _, _, _)
ReplaceAttrFrom(s, i, attr, b, m, gid) ==
    Only({ IF j = 0 THEN SubSeq(s, i, Len(s))
           ELSE Only({ SubSeq(s, i, j - 1) \o AttrReplacement(mt, b, m, gid)
                       \o ReplaceAttrFrom(s, mt.last + 1, attr, b, m, gid) :
                       mt \in {AttrMatchAt(s, j, attr)} }) :
           j \in {MinOf({k \in LitStarts(s, i, attr) : AttrMatchAt(s, k, attr).ok})} })

\* colorAttributes.forEach: one pass per attribute name
RECURSIVE AttrPasses(_, _, _, _, _, _)
AttrPasses(s, attrs, k, b, m, gid) ==
    IF k > Len(attrs) THEN s
    ELSE Only({ AttrPasses(replaced, attrs, k + 1, b, m, gid) :
                replaced \in {ReplaceAttrFrom(s, 1, attrs[k], b, m, gid)} })

rewriteAttributes(s, b, m, gid) == AttrPasses(s, colorAttributes, 1, b, m, gid)

\* the replacement callback of the style-attribute pass: `style="${newStyle}"`
StyleAttrReplacement(mt, b, m, gid) ==
    StyleName \o <<"=", "\"">> \o ToStr(processInlineStyle(mt.value, b, m, gid))
    \o <<"\"">>

\* result.replace(/style\s*=\s*["']([^"']+)["']/gi, callback)
RECURSIVE ReplaceStyleAttrFrom(_, _, _, _, _)
ReplaceStyleAttrFrom(s, i, b, m, gid) ==
    Only({ IF j = 0 THEN SubSeq(s, i, Len(s))
           ELSE Only({ SubSeq(s, i, j - 1) \o StyleAttrReplacement(mt, b, m, gid)
                       \o ReplaceStyleAttrFrom(s, mt.last + 1, b, m, gid) :
                       mt \in {AttrMatchAt(s, j, StyleName)} }) :
           j \in {MinOf({k \in LitStarts(s, i, StyleName) :
                            AttrMatchAt(s, k, StyleName).ok})} })

rewriteInlineStyles(s, b, m, gid) == ReplaceStyleAttrFrom(s, 1, b, m, gid)

---------------------------------------------------------------------------
(* Markup rewriter: <style> blocks *)

StyleOpen  == <<"<","s","t","y","l","e">>
StyleClose == <<"<","/","s","t","y","l","e",">">>

\* newCss.replace(new RegExp(escapedColor, 'gi'), replacement): every occurrence
\* of the literal, case-insensitively, left to right
RECURSIVE ReplaceLitFrom(_, _, _, _)
ReplaceLitFrom(s, i, lit, replacement) ==
    Only({ IF j = 0 THEN SubSeq(s, i, Len(s))
           ELSE SubSeq(s, i, j - 1) \o replacement
                \o ReplaceLitFrom(s, j + Len(lit), lit, replacement) :
           j \in {MinOf({k \in LitStarts(s, i, lit) : LitAt(s, k, lit, TRUE)})} })

\* the replacement the style-block pass computes for the colours of a role
CssRoleReplacement(role, b, m, gid) ==
    IF IsDuotone(m)
    THEN IF role = "primary" THEN DUOTONE_OUTLINE
         ELSE (IF m = "duo-primary" THEN b.primary ELSE b.secondary)
    ELSE IF role = "primary"
         THEN IF m = "gradient" /\ Truthy(gid) THEN UrlRef(gid)
              ELSE IF m = "secondary" THEN b.secondary
              ELSE b.primary
    ELSE b[role]

\* colors.forEach: one replace per colour of the list, in list order
RECURSIVE CssColorPasses(_, _, _, _)
CssColorPasses(text, colors, n, replacement) ==
    IF n > Len(colors) THEN text
    ELSE Only({ CssColorPasses(newCss, colors, n + 1, replacement) :
                newCss \in {ReplaceLitFrom(text, 1, colors[n], replacement)} })

\* Object.entries(COLOR_MAPPINGS).forEach: one round per role, in table order
RECURSIVE CssRolePasses(_, _, _, _, _)
CssRolePasses(css, k, b, m, gid) ==
    IF k > Len(COLOR_MAPPINGS) THEN css
    ELSE Only({
           Only({ CssRolePasses(newCss, k + 1, b, m, gid) :
                  newCss \in {CssColorPasses(css, COLOR_MAPPINGS[k].colors, 1,
                                             replacement)} }) :
           replacement \in {ToStr(CssRoleReplacement(COLOR_MAPPINGS[k].role,
                                                     b, m, gid))} })

\* /#([0-9a-fA-F]{3}){1,2}\b/g tried at position i: the length of the match
\* (7 or 4), or 0.  \b holds after a hexadecimal digit when no word character follows.
HexRun(s, i, n) == i + n <= Len(s) /\ \A d \in 1..n : IsHex(s[i + d])
EndsWord(s, j) == j + 1 > Len(s) \/ ~IsWord(s[j + 1])

HexColorMatchLen(s, i) ==
    IF s[i] # "#" THEN 0
    ELSE IF HexRun(s, i, 6) /\ EndsWord(s, i + 6) THEN 7
    ELSE IF HexRun(s, i, 3) /\ EndsWord(s, i + 3) THEN 4
    ELSE 0

\* the callback of the hex-colour pass of a style block
HexColorReplacement(hexColor_, b, m) ==
    LET accentColor == IF m = "duo-primary" THEN b.primary
                       ELSE IF m = "duo-secondary" THEN b.secondary
                       ELSE IF m = "secondary" THEN b.secondary
                       ELSE b.primary
    IN  Only({ IF shouldPreserve(hexColor) THEN hexColor
                   ELSE IF getColorRole(hexColor) # NoRole THEN hexColor
                   ELSE IF IsDuotone(m)
                        THEN IF isDarkColor(hexColor) /\ ~isChromatic(hexColor)
                             THEN DUOTONE_OUTLINE
                             ELSE accentColor
                   ELSE IF isChromatic(hexColor) THEN accentColor
                   ELSE hexColor :
                   hexColor \in {hexColor_} })

\* newCss.replace(hexColorRegex, callback)
RECURSIVE ReplaceHexFrom(_, _, _, _)
ReplaceHexFrom(s, i, b, m) ==
    Only({ IF j = 0 THEN SubSeq(s, i, Len(s))
           ELSE Only({ SubSeq(s, i, j - 1)
                       \o ToStr(HexColorReplacement(SubSeq(s, j, j + n - 1), b, m))
                       \o ReplaceHexFrom(s, j + n, b, m) :
                       n \in {HexColorMatchLen(s, j)} }) :
           j \in {MinOf({k \in LitStarts(s, i, <<"#">>) :
                            HexColorMatchLen(s, k) > 0})} })

\* the new CSS text of one style block
rewriteCss(cssContent, b, m, gid) ==
    Only({ ReplaceHexFrom(newCss, 1, b, m) :
           newCss \in {CssRolePasses(cssContent, 1, b, m, gid)} })

\* match.replace(cssContent, newCss): the first occurrence of the old CSS text
\* in the matched block (the start of the block when that text is empty)
ReplaceFirst(match, cssContent, newCss) ==
    Only({ IF at = 0 THEN match
           ELSE SubSeq(match, 1, at - 1) \o newCss
                \o SubSeq(match, at + Len(cssContent), Len(match)) :
           at \in {IndexOfFrom(match, cssContent, 1, FALSE)} })

\* the replacement callback of the style-block pass
StyleBlockReplacement(s, mt, b, m, gid) ==
    Only({ ReplaceFirst(match, cssContent, rewriteCss(cssContent, b, m, gid)) :
           match \in {SubSeq(s, mt.first, mt.last)},
           cssContent \in {mt.content} })

\* result.replace(/<style[^>]*>([\s\S]*?)<\/style>/gi, callback)
RECURSIVE ReplaceStyleBlockFrom(_, _, _, _, _)
ReplaceStyleBlockFrom(s, i, b, m, gid) ==
    Only({ IF ~mt.ok THEN SubSeq(s, i, Len(s))
           ELSE SubSeq(s, i, mt.first - 1) \o StyleBlockReplacement(s, mt, b, m, gid)
                \o ReplaceStyleBlockFrom(s, mt.last + 1, b, m, gid) :
           mt \in {BlockMatchFrom(s, i, StyleOpen, StyleClose)} })

rewriteStyleBlocks(s, b, m, gid) == ReplaceStyleBlockFrom(s, 1, b, m, gid)

---------------------------------------------------------------------------
(* recolorSvg *)

\* an absent palette argument (undefined or null)
NoBrand == [null |-> TRUE]

\* a plausible slip: an absent palette is taken as a palette with no colours
\* (`brand = {}`) and the call goes on
recolorSvg_defaultPalette(s, b, m, gid) ==
    IF ~Truthy(s) THEN s
    ELSE Only({
           Only({
             Only({
               Only({ rewriteStyleBlocks(styles, p, m, gid) :
                      styles \in {rewriteInlineStyles(attrs, p, m, gid)} }) :
               attrs \in {rewriteAttributes(injected, p, m, gid)} }) :
             injected \in {IF m = "gradient" /\ Truthy(gid)
                           THEN injectGradient(s, p, gid) ELSE s} }) :
           p \in {IF b = NoBrand
                  THEN [primary |-> Undefined, secondary |-> Undefined,
                        accent |-> Undefined]
                  ELSE b} })

\* recolorSvg(svgString, brand, mode), gid being the gradient id it generates
recolorSvg(s, b, m, gid) ==
    IF ~Truthy(s) \/ b = NoBrand THEN s
    ELSE Only({
           Only({
             Only({ rewriteStyleBlocks(styles, b, m, gid) :
                    styles \in {rewriteInlineStyles(attrs, b, m, gid)} }) :
             attrs \in {rewriteAttributes(injected, b, m, gid)} }) :
           injected \in {IF m = "gradient" /\ Truthy(gid)
                         THEN injectGradient(s, b, gid) ELSE s} })

---------------------------------------------------------------------------
(* Inputs *)

Modes == {"primary", "secondary", "gradient", "duo-primary", "duo-secondary"}
StandardModes == {"primary", "secondary", "gradient"}

\* the catalog brand 'rinvoq': #FFD200, #000000, #F5F5F5
BrandRinvoq ==
    [primary |-> <<"#","F","F","D","2","0","0">>, secondary |-> <<"#","0","0","0","0","0","0">>,
     accent |-> <<"#","F","5","F","5","F","5">>]
\* the catalog brand 'custom': #1E40AF, #64748B, #E2E8F0
BrandCustom ==
    [primary |-> <<"#","1","E","4","0","A","F">>, secondary |-> <<"#","6","4","7","4","8","B">>,
     accent |-> <<"#","E","2","E","8","F","0">>]
\* a palette that supplies only its primary colour: #ED6A00
BrandPrimaryOnly ==
    [primary |-> <<"#","E","D","6","A","0","0">>, secondary |-> Undefined, accent |-> Undefined]

Brands == {BrandRinvoq, BrandCustom, BrandPrimaryOnly}

\* `gradient-${Date.now()}-${Math.random().toString(36).substr(2, 9)}` with the
\* time stamp and the random part cut short: gradient-1-k3x, gradient-2-grey
GradientIds ==
  { <<"g","r","a","d","i","e","n","t","-","1","-","k","3","x">>,
    <<"g","r","a","d","i","e","n","t","-","2","-","g","r","e","y">> }

\* the gradient ids a call in mode m can generate
GradientIdsOf(m) == IF m = "gradient" THEN GradientIds ELSE {Null}

\* preserved tokens: White, #FFF, #ffffff, none, Transparent, rgb(255, 255, 255), RGB(255,255,255)
PreservedTokens ==
  { <<"W","h","i","t","e">>,
    <<"#","F","F","F">>,
    <<"#","f","f","f","f","f","f">>,
    <<"n","o","n","e">>,
    <<"T","r","a","n","s","p","a","r","e","n","t">>,
    <<"r","g","b","(","2","5","5",","," ","2","5","5",","," ","2","5","5",")">>,
    <<"R","G","B","(","2","5","5",",","2","5","5",",","2","5","5",")">> }

\* primary-role tokens: the eleven colours of the list, with case and blank variants
PrimaryTokens ==
  { <<"#","0","0","0">>,
    <<"#","0","0","0","0","0","0">>,
    <<"B","l","a","c","k">>,
    <<"#","3","3","3">>,
    <<"#","3","3","3","3","3","3">>,
    <<"#","1","1","1">>,
    <<"#","1","1","1","1","1","1">>,
    <<"#","2","2","2">>,
    <<"#","2","2","2","2","2","2">>,
    <<"r","g","b","(","0",","," ","0",","," ","0",")">>,
    <<"R","G","B","(","0",",","0",",","0",")">>,
    <<"R","G","B","("," ","0",","," ","0",","," ","0"," ",")">>,
    <<"r","g","b","(","5","1",","," ","5","1",","," ","5","1",")">>,
    <<"r","g","b","(","5","1",",","5","1",",","5","1",")">> }

\* secondary-role tokens: #666, #666666, #808080, Gray, grey, #777, #888888, #999, rgb(128, 128, 128), rgb(102,102,102)
SecondaryTokens ==
  { <<"#","6","6","6">>,
    <<"#","6","6","6","6","6","6">>,
    <<"#","8","0","8","0","8","0">>,
    <<"G","r","a","y">>,
    <<"g","r","e","y">>,
    <<"#","7","7","7">>,
    <<"#","8","8","8","8","8","8">>,
    <<"#","9","9","9">>,
    <<"r","g","b","(","1","2","8",","," ","1","2","8",","," ","1","2","8",")">>,
    <<"r","g","b","(","1","0","2",",","1","0","2",",","1","0","2",")">> }

\* accent-role tokens: #ccc, #CCCCCC, #ddd, #eeeeee, #AAA, #bbbbbb, lightgray, LightGrey, silver, rgb(204, 204, 204)
AccentTokens ==
  { <<"#","c","c","c">>,
    <<"#","C","C","C","C","C","C">>,
    <<"#","d","d","d">>,
    <<"#","e","e","e","e","e","e">>,
    <<"#","A","A","A">>,
    <<"#","b","b","b","b","b","b">>,
    <<"l","i","g","h","t","g","r","a","y">>,
    <<"L","i","g","h","t","G","r","e","y">>,
    <<"s","i","l","v","e","r">>,
    <<"r","g","b","(","2","0","4",","," ","2","0","4",","," ","2","0","4",")">> }

\* tokens in no table: chromatic (#E35724, #2563eb, rgb(200, 30, 30)), dark and
\* not chromatic (#1a1a1a, #0a0a14, #4A4A4A, rgb(20,20,20)), neither (#f0f0f0,
\* #50505a), dark and chromatic (#14143c), of luminance 80 (#505050, #0d697f),
\* tokens with no RGB value (red, currentColor, url(#a), #12, #zzzzzz) and a
\* token with the letter O for a zero (#FF000O)
UnmappedTokens ==
  { <<"#","5","0","5","0","5","0">>,
    <<"#","0","d","6","9","7","f">>,
    <<"#","F","F","0","0","0","O">>,
    <<"#","E","3","5","7","2","4">>,
    <<"#","2","5","6","3","e","b">>,
    <<"r","g","b","(","2","0","0",","," ","3","0",","," ","3","0",")">>,
    <<"#","1","a","1","a","1","a">>,
    <<"#","0","a","0","a","1","4">>,
    <<"#","f","0","f","0","f","0">>,
    <<"#","4","A","4","A","4","A">>,
    <<"#","5","0","5","0","5","a">>,
    <<"#","1","4","1","4","3","c">>,
    <<"r","g","b","(","2","0",",","2","0",",","2","0",")">>,
    <<"r","e","d">>,
    <<"c","u","r","r","e","n","t","C","o","l","o","r">>,
    <<"u","r","l","(","#","a",")">>,
    <<"#","1","2">>,
    <<"#","z","z","z","z","z","z">> }

\* the tokens replaceColor is called with
ResolverTokens ==
    PreservedTokens \cup PrimaryTokens \cup SecondaryTokens \cup AccentTokens
    \cup UnmappedTokens \cup {<<>>}

\* the colour tokens written into markup: White, #FFF, none, rgb(255, 255, 255),
\* #000, #000000, Black, #666, lightgray, #E35724, #1a1a1a, currentColor
MarkupTokens ==
  { <<"W","h","i","t","e">>,
    <<"#","F","F","F">>,
    <<"n","o","n","e">>,
    <<"r","g","b","(","2","5","5",","," ","2","5","5",","," ","2","5","5",")">>,
    <<"#","0","0","0">>,
    <<"#","0","0","0","0","0","0">>,
    <<"B","l","a","c","k">>,
    <<"#","6","6","6">>,
    <<"l","i","g","h","t","g","r","a","y">>,
    <<"#","E","3","5","7","2","4">>,
    <<"#","1","a","1","a","1","a">>,
    <<"c","u","r","r","e","n","t","C","o","l","o","r">> }

\* the attribute / property names written into markup: fill, Stop-Color and
\* flood-color (which is in neither colorAttributes nor colorProps)
PropNames ==
  { <<"f","i","l","l">>,
    <<"S","t","o","p","-","C","o","l","o","r">>,
    <<"f","l","o","o","d","-","c","o","l","o","r">> }

\* the most blanks written around '=' and ':' and after a declaration's value
MaxPad == 1

Blanks(n) == [i \in 1..n |-> " "]

Constructs == {"attr", "style", "css"}

\* what stands between the <svg> tag and the element: nothing, or a <defs> block
\* with an attribute and a child, closed in upper case
HeadNone == <<>>
HeadDefsOpen  == <<"<","d","e","f","s"," ","i","d","=","\"","d","\"",">">>
HeadDefsChild == <<"<","g","/",">">>
HeadDefsClose == <<"<","/","D","E","F","S",">">>
HeadDefs == HeadDefsOpen \o HeadDefsChild \o HeadDefsClose
Heads == {HeadNone, HeadDefs}

SvgTag   == <<"<","s","v","g"," ","i","d","=","\"","s","\"",">">>
SvgClose == <<"<","/","s","v","g",">">>
PathOpen == <<"<","p","a","t","h"," ">>
PathEnd  == <<"/",">">>
CssOpen  == <<"<","s","t","y","l","e",">",".","a","{">>
CssEnd   == <<"}","<","/","s","t","y","l","e",">">>
OtherDecl == <<";","o","p","a","c","i","t","y",":","1">>

\* the shapes of the markup: one element with one colour token, written as an
\* attribute, as a declaration of a style attribute, or in a <style> block
Shapes ==
    { [construct |-> c, prop |-> p, quote |-> q, pad |-> n, head |-> h, tok |-> t] :
        c \in Constructs, p \in PropNames, q \in Quotes, n \in 0..MaxPad,
        h \in Heads, t \in MarkupTokens }

\* a <style> block has no quote: its shapes are taken with the double quote only
ShapeOk(sh) == sh.construct = "css" => sh.quote = "\""

\* the element of a shape
ElementOf(sh) ==
    IF sh.construct = "attr"
    THEN PathOpen \o sh.prop \o Blanks(sh.pad) \o <<"=">> \o Blanks(sh.pad)
         \o <<sh.quote>> \o sh.tok \o <<sh.quote>> \o PathEnd
    ELSE IF sh.construct = "style"
    THEN PathOpen \o StyleName \o <<"=", sh.quote>>
         \o sh.prop \o Blanks(sh.pad) \o <<":">> \o Blanks(sh.pad) \o sh.tok
         \o Blanks(sh.pad) \o OtherDecl \o <<sh.quote>> \o PathEnd
    ELSE CssOpen \o sh.prop \o Blanks(sh.pad) \o <<":">> \o Blanks(sh.pad) \o sh.tok
         \o CssEnd

\* the markup of a shape
MarkupOf(sh) == SvgTag \o sh.head \o ElementOf(sh) \o SvgClose

NoShape == [construct |-> "none"]

---------------------------------------------------------------------------
(* The calls *)

\* a call of recolorSvg(svgString, brand, mode) is about to be made
InitRecolor ==
    /\ pc = "ready"
    /\ call = "recolorSvg"
    /\ color = <<>>
    /\ brand \in Brands
    /\ mode \in Modes
    /\ gradientId \in GradientIdsOf(mode)
    /\ shape \in {sh \in Shapes : ShapeOk(sh)}
    /\ svgString = MarkupOf(shape)
    /\ result = <<>>
    /\ gradientId2 = Null
    /\ again = <<>>
    /\ NoApp

\* a call of replaceColor(color, brand, mode, gradientId) is about to be made
InitResolve ==
    /\ pc = "ready"
    /\ call = "replaceColor"
    /\ color \in ResolverTokens
    /\ brand \in Brands
    /\ mode \in Modes
    /\ gradientId \in GradientIdsOf(mode)
    /\ shape = NoShape
    /\ svgString = <<>>
    /\ result = <<>>
    /\ gradientId2 = Null
    /\ again = <<>>
    /\ NoApp

\* recolorSvg runs and returns
RecolorSvg ==
    /\ pc = "ready"
    /\ call = "recolorSvg"
    /\ result' = recolorSvg(svgString, brand, mode, gradientId)
    /\ pc' = "done"
    /\ UNCHANGED <<call, color, brand, mode, gradientId, shape, svgString,
                   gradientId2, again, app, store, tasks>>

\* replaceColor runs and returns
ReplaceColor ==
    /\ pc = "ready"
    /\ call = "replaceColor"
    /\ result' = replaceColor(color, brand, mode, gradientId)
    /\ pc' = "done"
    /\ UNCHANGED <<call, color, brand, mode, gradientId, shape, svgString,
                   gradientId2, again, app, store, tasks>>

Next == RecolorSvg

Spec == InitRecolor /\ [][Next]_vars

NextResolver == ReplaceColor

SpecResolver == InitResolve /\ [][NextResolver]_vars

---------------------------------------------------------------------------
(* Properties of the role resolver (SpecResolver) *)

Returned == pc = "done"

\* the palettes in which secondary and accent are set
FullBrands == {b \in Brands : Truthy(b.secondary) /\ Truthy(b.accent)}

\* the accent colour of a duotone mode
AccentOf(b, m) == IF m = "duo-primary" THEN b.primary ELSE b.secondary

\* C2: for every primary-role token and every palette, the resolver returns
\* palette.primary in mode 'primary' and palette.secondary in mode 'secondary'.
C2_PrimaryRoleCoverage ==
    (Returned /\ call = "replaceColor" /\ color \in PrimaryTokens)
        => /\ getColorRole(color) = "primary"
           /\ mode = "primary" => result = brand.primary
           /\ mode = "secondary" => result = brand.secondary

\* a spaced, upper-case spelling of a primary-role token resolved in mode
\* 'secondary' to a secondary colour that differs from the primary colour
C2_Witness ==
    /\ Returned /\ call = "replaceColor"
    /\ color = <<"R","G","B","("," ","0",","," ","0",","," ","0"," ",")">>
    /\ color \in PrimaryTokens
    /\ mode = "secondary"
    /\ brand = BrandCustom
    /\ result = brand.secondary
    /\ result # brand.primary

\* C3: in each standard mode, for every palette with secondary and accent set,
\* a secondary-role token resolves to palette.secondary and an accent-role
\* token to palette.accent, whichever standard mode is selected.
C3_SecondaryAccentCoverage ==
    (Returned /\ call = "replaceColor" /\ mode \in StandardModes
              /\ brand \in FullBrands)
        => /\ color \in SecondaryTokens
                => getColorRole(color) = "secondary" /\ result = brand.secondary
           /\ color \in AccentTokens
                => getColorRole(color) = "accent" /\ result = brand.accent

\* an accent-role token resolved in mode 'secondary' to the accent colour,
\* which is neither the primary nor the secondary colour
C3_Witness ==
    /\ Returned /\ call = "replaceColor"
    /\ color \in AccentTokens
    /\ mode = "secondary"
    /\ brand = BrandCustom
    /\ result = brand.accent
    /\ result \notin {brand.primary, brand.secondary}

\* C4: in a duotone mode, a token that is not preserved and in no role list
\* resolves to the mode's accent colour (palette.primary under 'duo-primary',
\* palette.secondary under 'duo-secondary') if it is chromatic, and to the
\* outline constant #2D2D2D if it is not chromatic and dark.
C4_DuotonePartition ==
    (Returned /\ call = "replaceColor" /\ IsDuotone(mode)
              /\ Truthy(color) /\ ~shouldPreserve(color)
              /\ getColorRole(color) = NoRole)
        => /\ isChromatic(color) => result = AccentOf(brand, mode)
           /\ (~isChromatic(color) /\ isDarkColor(color))
                => result = DUOTONE_OUTLINE

\* #14143c is chromatic and dark: under 'duo-primary' it takes the accent
\* colour, not the outline constant
C4_Witness ==
    /\ Returned /\ call = "replaceColor"
    /\ color = <<"#","1","4","1","4","3","c">>
    /\ color \in UnmappedTokens
    /\ isChromatic(color) /\ isDarkColor(color)
    /\ mode = "duo-primary"
    /\ brand = BrandCustom
    /\ result = brand.primary
    /\ result # DUOTONE_OUTLINE

\* C5: in both duotone modes every non-preserved, non-empty token resolves to
\* the outline constant #2D2D2D or to the mode's accent colour; a primary-role
\* token always gives #2D2D2D, a secondary- or accent-role token always gives
\* the accent colour.
C5_DuotoneTwoValues ==
    (Returned /\ call = "replaceColor" /\ IsDuotone(mode)
              /\ color # <<>> /\ color \notin PreservedTokens)
        => /\ result \in {DUOTONE_OUTLINE, AccentOf(brand, mode)}
           /\ color \in PrimaryTokens => result = DUOTONE_OUTLINE
           /\ color \in (SecondaryTokens \cup AccentTokens)
                => result = AccentOf(brand, mode)

\* a token that is no colour at all resolved under 'duo-secondary' to the
\* accent colour
C5_Witness ==
    /\ Returned /\ call = "replaceColor"
    /\ color = <<"c","u","r","r","e","n","t","C","o","l","o","r">>
    /\ parseColorToRgb(color) = NoRgb
    /\ mode = "duo-secondary"
    /\ brand = BrandCustom
    /\ result = brand.secondary
    /\ result # DUOTONE_OUTLINE

---------------------------------------------------------------------------
(* Properties of recolorSvg (Spec) *)

Recolored == pc = "done" /\ call = "recolorSvg"

\* the number of places of s where lit stands
Occurrences(s, lit) == Cardinality({k \in 1..Len(s) : LitAt(s, k, lit, FALSE)})

IsColorAttr(p) == \E i \in 1..Len(colorAttributes) : colorAttributes[i] = ToLowerCase(p)
IsColorProp(p) == \E i \in 1..Len(colorProps) : colorProps[i] = ToLowerCase(p)

\* the shapes whose attribute the attribute passes match
MatchedAttr(sh) ==
    \/ sh.construct = "attr" /\ IsColorAttr(sh.prop)
    \/ sh.construct = "style"

\* the element of a shape with v at the place of its colour token, the
\* attribute written back as name="value" and the declaration as property:value
ElementWith(sh, v) ==
    IF sh.construct = "attr"
    THEN IF IsColorAttr(sh.prop)
         THEN PathOpen \o sh.prop \o <<"=", "\"">> \o v \o <<"\"">> \o PathEnd
         ELSE PathOpen \o sh.prop \o Blanks(sh.pad) \o <<"=">> \o Blanks(sh.pad)
              \o <<sh.quote>> \o v \o <<sh.quote>> \o PathEnd
    ELSE IF sh.construct = "style"
    THEN PathOpen \o StyleName \o <<"=", "\"">> \o sh.prop \o <<":">> \o v
         \o OtherDecl \o <<"\"">> \o PathEnd
    ELSE CssOpen \o sh.prop \o Blanks(sh.pad) \o <<":">> \o Blanks(sh.pad) \o v
         \o CssEnd

PreservedMarkupTokens == MarkupTokens \cap PreservedTokens
PrimaryMarkupTokens == MarkupTokens \cap PrimaryTokens

\* C1: for every palette and mode, a preserved token written as the value of
\* an attribute, of an inline style declaration or of a declaration in a
\* <style> block stands unchanged at the same place in the output.
C1_PreservedKept ==
    (Recolored /\ shape.tok \in PreservedMarkupTokens)
        => /\ shouldPreserve(shape.tok)
           /\ Contains(result, ElementWith(shape, shape.tok))
           /\ Occurrences(result, shape.tok) >= Occurrences(svgString, shape.tok)

\* 'White' in a single-quoted style attribute with blanks around it, recoloured
\* in a duotone mode: the declaration is rewritten and the token is still there
C1_Witness ==
    /\ Recolored
    /\ shape.tok = <<"W","h","i","t","e">>
    /\ shape.construct = "style" /\ shape.pad = 1 /\ shape.quote = "'"
    /\ mode = "duo-primary"
    /\ result # svgString
    /\ Contains(result, ElementWith(shape, shape.tok))

LinearGradientTag == <<"<","l","i","n","e","a","r","G","r","a","d","i","e","n","t">>
UrlOpen == <<"u","r","l","(">>

\* C6: in gradient mode with a primary-role token in the input, the output
\* holds exactly one <linearGradient>, its id is the generated id X, the token
\* is replaced by url(#X), and every url( reference of the output is url(#X).
C6_GradientRefWellFormed ==
    (Recolored /\ mode = "gradient" /\ shape.tok \in PrimaryMarkupTokens
               /\ (MatchedAttr(shape) \/ shape.construct = "css"))
        => /\ Occurrences(result, LinearGradientTag) = 1
           /\ Contains(result, LinearGradientTag \o <<" ","i","d","=","\"">>
                               \o gradientId \o <<"\"">>)
           /\ Contains(result, ElementWith(shape, UrlRef(gradientId)))
           /\ Occurrences(result, UrlOpen) = Occurrences(result, UrlRef(gradientId))

\* C7: in gradient mode with primary and secondary set, the gradient
\* definition of the final output is the injected one: its 0% stop is
\* palette.primary and its 100% stop is palette.secondary.
C7_GradientStopsKept ==
    (Recolored /\ mode = "gradient" /\ Truthy(brand.primary)
               /\ Truthy(brand.secondary))
        => Contains(result, gradientDefOf(brand, gradientId))

Indent == <<"\n"," "," "," "," ">>

\* C8: in gradient mode the gradient definition is injected once; into an
\* existing <defs> block it comes after the block's children and the block's
\* opening tag is kept with its attributes; without a <defs> block a new one
\* stands right after the <svg ...> tag.
C8_InjectionKeepsDefs ==
    (Recolored /\ mode = "gradient")
        => /\ Occurrences(result, LinearGradientTag) = 1
           /\ shape.head = HeadDefs
                => Contains(result, SvgTag \o HeadDefsOpen \o HeadDefsChild
                                    \o Indent \o LinearGradientTag)
           /\ shape.head = HeadNone
                => Contains(result, SvgTag \o DefsTag \o Indent \o LinearGradientTag)

\* the attribute name of a shape
AttrNameOf(sh) == IF sh.construct = "style" THEN StyleName ELSE sh.prop

C10_OtherDeclarationsKept ==
    (Recolored /\ shape.construct = "style" /\ ~IsColorProp(shape.prop))
        => \E n \in 0..MaxPad :
                Contains(result, shape.prop \o Blanks(n) \o <<":">> \o Blanks(n)
                                 \o shape.tok \o Blanks(n) \o OtherDecl)

\* the shapes whose colour token one of the passes has rewritten: the value of
\* a matched attribute, or a token of a <style> block that no longer stands
\* there as it was written
Rewritten(sh, out) ==
    \/ MatchedAttr(sh)
    \/ sh.construct = "css" /\ ~Contains(out, ElementWith(sh, sh.tok))

\* C11: within one call of recolorSvg, for every palette and mode, the text
\* that stands in the output at the place of a rewritten colour token is the
\* resolver's result for that token, applied once: it is not resolved again
\* by a later pass or by a pattern whose property name contains another one.
C11_ResolvedOnce ==
    (Recolored /\ Rewritten(shape, result))
        => Contains(result, ElementWith(shape,
               ToStr(replaceColor(shape.tok, brand, mode, gradientId))))

\* the tokens of the markup inputs that stand in a role list
RoleMarkupTokens == {t \in MarkupTokens : getColorRole(t) # NoRole}

\* C12: in a <style> block every role-table token, matched as a whole token,
\* is replaced by the mode-resolved output of its own role, also when a
\* shorter colour of the tables is a prefix or a substring of it (#000 of
\* #000000, gray of lightgray).
C12_CssRoleTokenWhole ==
    (Recolored /\ shape.construct = "css" /\ shape.tok \in RoleMarkupTokens)
        => Contains(result, ElementWith(shape,
               ToStr(CssRoleReplacement(getColorRole(shape.tok), brand, mode,
                                        gradientId))))

\* the same token written as the value of a fill attribute
FillAttrOf(sh) == [sh EXCEPT !.construct = "attr", !.prop = <<"f","i","l","l">>]

\* the shapes whose token is a colour value for the rewriter: a colour
\* attribute, or a colour declaration of a style attribute or a <style> block
ColourBearing(sh) ==
    IF sh.construct = "attr" THEN IsColorAttr(sh.prop) ELSE IsColorProp(sh.prop)

\* the texts the resolver can put at the place of token t
OutputValues(t, b, gid) ==
    {t, Trim(t), ToStr(b.primary), ToStr(b.secondary), ToStr(b.accent),
     DUOTONE_OUTLINE, UrlRef(gid)}

\* C13: for every palette, mode and colour token, the token is recoloured to
\* the same text whether it is the value of a fill, stroke or stop-color
\* attribute, of a colour declaration of a style attribute or of a colour
\* declaration of a <style> block.
C13_SameAcrossConstructs ==
    (Recolored /\ ColourBearing(shape))
        => \E asAttr \in {recolorSvg(MarkupOf(FillAttrOf(shape)), brand, mode,
                                     gradientId)} :
             \E v \in OutputValues(shape.tok, brand, gradientId) :
                /\ Contains(asAttr, ElementWith(FillAttrOf(shape), v))
                /\ Contains(result, ElementWith(shape, v))

\* C14: in a standard mode, a token that is not preserved and in no role list
\* resolves, if it is chromatic, to palette.secondary under 'secondary' and to
\* palette.primary otherwise (under 'gradient' too, never to a gradient
\* reference); if it is not chromatic the resolver returns it unchanged.
C14_StandardUnmapped ==
    (Returned /\ call = "replaceColor" /\ mode \in StandardModes
              /\ Truthy(color) /\ ~shouldPreserve(color)
              /\ getColorRole(color) = NoRole)
        => /\ isChromatic(color)
                => /\ result = (IF mode = "secondary" THEN brand.secondary
                                ELSE brand.primary)
                   /\ result # UrlRef(gradientId)
           /\ ~isChromatic(color) => result = color

\* an unmapped chromatic token resolved in gradient mode, a gradient id being
\* at hand: the result is the primary colour, not the reference
C14_Witness ==
    /\ Returned /\ call = "replaceColor"
    /\ mode = "gradient" /\ Truthy(gradientId)
    /\ color = <<"#","E","3","5","7","2","4">>
    /\ isChromatic(color)
    /\ result = brand.primary

\* a token parseColorToRgb finds no RGB value for
Unparseable(c) ==
    \E rgb \in {parseColorToRgb(c)} : rgb = NoRgb \/ HasNaN(rgb)

\* the tokens C15 is about: not preserved, in no role list, no RGB value
Unclassifiable(c) ==
    /\ Truthy(c) /\ ~shouldPreserve(c)
    /\ getColorRole(c) = NoRole
    /\ Unparseable(c)

\* C15 (as amended): a token with no parseable RGB value and no role is
\* returned unchanged by the resolver in the three standard modes; in the two
\* duotone modes it resolves to the mode's accent colour, as every token that
\* is neither preserved, nor primary-role, nor dark does.
C15_UnparseableByMode ==
    (Returned /\ call = "replaceColor" /\ Unclassifiable(color))
        => /\ mode \in StandardModes => result = color
           /\ IsDuotone(mode) => result = AccentOf(brand, mode)

\* a reference url(#a) resolved under 'duo-primary': the result is the
\* primary colour, not the reference
C15_Witness ==
    /\ Returned /\ call = "replaceColor"
    /\ color = <<"u","r","l","(","#","a",")">>
    /\ Unclassifiable(color)
    /\ mode = "duo-primary"
    /\ result = brand.primary
    /\ result # color

\* C15 (as stated): a token with no parseable RGB value and no role is
\* returned unchanged by the resolver in every one of the five modes.
C15_UnparseableUnchanged ==
    (Returned /\ call = "replaceColor" /\ Unclassifiable(color))
        => result = color

UndefinedText == <<"u","n","d","e","f","i","n","e","d">>

\* C16: with a palette whose secondary or accent colour is absent, no token
\* is replaced by the absent colour: the output never holds the text
\* 'undefined', and a token whose resolution needs the absent colour stands
\* unchanged in the output.
C16_NoAbsentColour ==
    (Recolored /\ brand \notin FullBrands)
        => /\ ~Contains(result, UndefinedText)
           /\ (ColourBearing(shape)
                 /\ ~Truthy(replaceColor(Trim(shape.tok), brand, mode, gradientId)))
                => Contains(result, ElementWith(shape, shape.tok))

---------------------------------------------------------------------------
(* recolorSvg called without markup or without a palette (SpecGuard) *)

\* '' and the absent values of the svgString argument
AbsentMarkup == {<<>>, Undefined, Null}

\* a call of recolorSvg(svgString, brand, mode) is about to be made with no
\* markup, or with markup and no palette
InitGuard ==
    /\ pc = "ready"
    /\ call = "recolorSvg"
    /\ color = <<>>
    /\ mode \in Modes
    /\ gradientId \in GradientIdsOf(mode)
    /\ \/ /\ shape = NoShape
          /\ svgString \in AbsentMarkup
          /\ brand \in Brands \cup {NoBrand}
       \/ /\ shape \in {sh \in Shapes : ShapeOk(sh)}
          /\ svgString = MarkupOf(shape)
          /\ brand = NoBrand
    /\ result = <<>>
    /\ gradientId2 = Null
    /\ again = <<>>
    /\ NoApp

SpecGuard == InitGuard /\ [][Next]_vars

\* C17: recolorSvg called with an empty or absent markup string, or with an
\* absent palette, returns its markup argument unchanged in every mode; in
\* gradient mode no gradient is injected.
C17_GuardReturnsInput ==
    (Recolored /\ (~Truthy(svgString) \/ brand = NoBrand))
        => /\ result = svgString
           /\ ~Contains(ToStr(result), LinearGradientTag)

\* markup with a primary-role token and a <defs> block, no palette, gradient
\* mode: the markup comes back as it was
C17_Witness ==
    /\ Recolored
    /\ brand = NoBrand /\ mode = "gradient" /\ Truthy(gradientId)
    /\ shape # NoShape
    /\ shape.tok \in PrimaryMarkupTokens /\ shape.head = HeadDefs
    /\ Contains(svgString, DefsOpen)
    /\ result = svgString

---------------------------------------------------------------------------
(* recolorSvg called a second time (SpecTwice) *)

\* recolorSvg is called on the string the first call returned, with the same
\* palette and mode; the call generates its own gradient id
RecolorOutput ==
    /\ pc = "done"
    /\ call = "recolorSvg"
    /\ \E gid \in GradientIdsOf(mode) :
          /\ gradientId2' = gid
          /\ again' = recolorSvg(result, brand, mode, gid)
    /\ pc' = "reapplied"
    /\ UNCHANGED <<call, color, brand, mode, gradientId, shape, svgString, result,
                   app, store, tasks>>

\* recolorSvg is called once more with the arguments of the first call; the
\* call generates its own gradient id
RecolorSame ==
    /\ pc = "done"
    /\ call = "recolorSvg"
    /\ \E gid \in GradientIdsOf(mode) :
          /\ gradientId2' = gid
          /\ again' = recolorSvg(svgString, brand, mode, gid)
    /\ pc' = "repeated"
    /\ UNCHANGED <<call, color, brand, mode, gradientId, shape, svgString, result,
                   app, store, tasks>>

NextTwice == RecolorSvg \/ RecolorOutput \/ RecolorSame

\* the first call of a pair: the markup shapes without blanks around the
\* token, double-quoted
InitTwice ==
    /\ InitRecolor
    /\ shape.pad = 0
    /\ shape.quote = "\""

SpecTwice == InitTwice /\ [][NextTwice]_vars

Reapplied == pc = "reapplied"

\* no colour of the palette stands in a role list
NoRoleColours(b) ==
    \A c \in {b.primary, b.secondary, b.accent} :
        Truthy(c) => getColorRole(c) = NoRole

\* the palette colours a call in mode m can write
WrittenColours(b, m) ==
    IF IsDuotone(m) THEN {AccentOf(b, m)}
    ELSE IF m = "secondary" THEN {b.secondary, b.accent}
    ELSE {b.primary, b.secondary, b.accent}

\* every colour a call in mode m can write is resolved to itself in mode m
StableOutputs(b, m) ==
    \A c \in WrittenColours(b, m) :
        ToStr(replaceColor(ToStr(c), b, m, Null)) = ToStr(c)

Repeated == pc = "repeated"

---------------------------------------------------------------------------
(* The classification tables *)

\* the normalized entries of the preserved list and of the role lists share
\* no colour, list against list
TablesDisjoint ==
    /\ \A k \in 1..Len(COLOR_MAPPINGS) :
          PreservedNormalized \cap RoleNormalized[k] = {}
    /\ \A j \in 1..Len(COLOR_MAPPINGS) : \A k \in 1..Len(COLOR_MAPPINGS) :
          j # k => RoleNormalized[j] \cap RoleNormalized[k] = {}

\* the lists that hold a token: 0 is the preserved list, k the k-th role list
ListsHolding(c) ==
    {n \in 0..Len(COLOR_MAPPINGS) :
        IF n = 0 THEN normalizeColor(c) \in PreservedNormalized
        ELSE normalizeColor(c) \in RoleNormalized[n]}

\* getColorRole with the role lists scanned from the last to the first
RECURSIVE RoleFromLast(_, _)
RoleFromLast(normalized, k) ==
    IF k < 1 THEN NoRole
    ELSE IF normalized \in RoleNormalized[k]
         THEN COLOR_MAPPINGS[k].role
         ELSE RoleFromLast(normalized, k - 1)

\* C20: the preserved list and the three role lists are pairwise disjoint
\* after normalization; every token is held by at most one of the four lists,
\* and getColorRole gives the same role whichever way the role lists are
\* scanned.
C20_TablesDisjoint ==
    (Returned /\ call = "replaceColor")
        => /\ TablesDisjoint
           /\ Cardinality(ListsHolding(color)) <= 1
           /\ getColorRole(color)
                = RoleFromLast(normalizeColor(color), Len(COLOR_MAPPINGS))

\* 'lightgray', which holds the secondary list's 'gray' as a substring, is
\* held by the accent list alone and has the accent role from either end
C20_Witness ==
    /\ Returned /\ call = "replaceColor"
    /\ normalizeColor(color) = <<"l","i","g","h","t","g","r","a","y">>
    /\ ListsHolding(color) = {3}
    /\ getColorRole(color) = "accent"
    /\ RoleFromLast(normalizeColor(color), Len(COLOR_MAPPINGS)) = "accent"

---------------------------------------------------------------------------
(* Normalization *)

\* String.prototype.toUpperCase on the letters a..z
ToUpperCase(s) ==
    [i \in 1..Len(s) |->
        IF \E k \in 1..26 : LowerChars[k] = s[i]
        THEN UpperChars[CHOOSE k \in 1..26 : LowerChars[k] = s[i]]
        ELSE s[i]]

\* the token with a blank after each of its characters
SpacedOut(c) == Concat([i \in 1..Len(c) |-> <<c[i], " ">>])

\* tokens that differ from c in letter case, in leading or trailing whitespace
\* or in inner whitespace only
VariantsOf(c) ==
    {ToLowerCase(c), ToUpperCase(c), <<" ", "\t">> \o c \o <<"\n">>,
     RemoveWs(c), SpacedOut(c)}
    \cup {d \in ResolverTokens : Truthy(d) /\ normalizeColor(d) = normalizeColor(c)}

\* C21: normalizeColor is idempotent, and two tokens that differ only in
\* letter case, leading or trailing whitespace or inner whitespace have the
\* same normalized form, the same preserved verdict and the same role.
C21_NormalizedKey ==
    (Returned /\ call = "replaceColor" /\ Truthy(color))
        => /\ normalizeColor(normalizeColor(color)) = normalizeColor(color)
           /\ \A d \in VariantsOf(color) :
                /\ normalizeColor(d) = normalizeColor(color)
                /\ shouldPreserve(d) = shouldPreserve(color)
                /\ getColorRole(d) = getColorRole(color)

\* 'RGB( 0, 0, 0 )' has the primary role, as its variant without whitespace has
C21_Witness ==
    /\ Returned /\ call = "replaceColor"
    /\ color = <<"R","G","B","("," ","0",","," ","0",","," ","0"," ",")">>
    /\ RemoveWs(color) # color
    /\ RemoveWs(color) \in VariantsOf(color)
    /\ getColorRole(color) = "primary"
    /\ getColorRole(RemoveWs(color)) = "primary"

---------------------------------------------------------------------------
(* The App component: brand list, selection and its persistence *)

\* a palette with the id the brand list knows it by
WithId(id, b) ==
    [id |-> id, primary |-> b.primary, secondary |-> b.secondary, accent |-> b.accent]

\* the catalog brand 'novartis': #ED6A00, #002B49, #E5E5E5
BrandNovartis ==
    [primary |-> <<"#","E","D","6","A","0","0">>, secondary |-> <<"#","0","0","2","B","4","9">>,
     accent |-> <<"#","E","5","E","5","E","5">>]
\* the catalog brand 'gsk': #FF6200, #000000, #4A4A4A
BrandGsk ==
    [primary |-> <<"#","F","F","6","2","0","0">>, secondary |-> <<"#","0","0","0","0","0","0">>,
     accent |-> <<"#","4","A","4","A","4","A">>]

\* the catalog, in its order
BRANDS ==
    << WithId("rinvoq", BrandRinvoq), WithId("novartis", BrandNovartis),
       WithId("gsk", BrandGsk), WithId("custom", BrandCustom) >>

DEFAULT_BRAND_ID == "rinvoq"

\* the colours the 'Add New Brand' form starts with: #3B82F6, #1E3A5F, #E5E7EB
NewBrandColours ==
    [primary |-> <<"#","3","B","8","2","F","6">>, secondary |-> <<"#","1","E","3","A","5","F">>,
     accent |-> <<"#","E","5","E","7","E","B">>]

\* the colour the quick colour picker starts with, #FFFFFF, and the accent of
\* the virtual brand made of it, #F5F5F5
DefaultCustomColor == <<"#","F","F","F","F","F","F">>
CustomColorAccent == <<"#","F","5","F","5","F","5">>
\* a colour typed into a colour field: #0EA5E9
EditedColour == <<"#","0","E","A","5","E","9">>


ColorTypes == {"primary", "secondary", "accent"}

\* how many brands the user creates, and how many colour fields the user edits
MaxCustomBrands == 1
MaxEdits == 1

\* `custom-${Date.now()}`, the time stamp being the rank of the brand
CustomBrandId(n) == "custom-" \o ToString(n)

\* localStorage.getItem of a key that was never set
NoItem == ""

\* the stores of a browser that never ran the app
EmptyStore ==
    [mounted |-> TRUE, brand |-> NoItem, overrides |-> {}, deleted |-> {},
     customBrands |-> <<>>, customColor |-> <<>>, icons |-> <<>>]

\* the selection started from the default brand whatever is stored
initialBrandId_alwaysDefault(st) == DEFAULT_BRAND_ID

\* useState(() => localStorage.getItem(STORAGE_KEY) || DEFAULT_BRAND_ID)
initialBrandId(st) == IF st.brand # NoItem THEN st.brand ELSE DEFAULT_BRAND_ID

\* the state of App after its first render on the stores st; library,
\* lastSelected and justStarted record the history: the icons the library held
\* at the start, the id last passed to setSelectedBrandId ("none" if there was
\* no such call) and whether a handler ran since the start
Mount(st, last) ==
    [mounted |-> TRUE,
     selectedBrandId |-> initialBrandId(st),
     isCustomColorSelected |-> FALSE,
     customColor |-> IF Truthy(st.customColor) THEN st.customColor
                     ELSE DefaultCustomColor,
     brandOverrides |-> st.overrides,
     deletedBrands |-> st.deleted,
     customBrands |-> st.customBrands,
     icons |-> <<>>,
     library |-> st.icons,
     lastSelected |-> last,
     justStarted |-> TRUE]

\* the effects that write the state to localStorage after a render
Persist(a, st) ==
    [st EXCEPT !.brand = a.selectedBrandId,
               !.overrides = a.brandOverrides,
               !.deleted = a.deletedBrands,
               !.customBrands = a.customBrands,
               !.customColor = a.customColor]

\* { ...brand, ...override }: the colours of b with the edited fields of the
\* overrides ov laid over them
ApplyOverride(b, ov) ==
    LET mine == {o \in ov : o.id = b.id}
        field(type) == IF \E o \in mine : o.type = type
                       THEN (CHOOSE o \in mine : o.type = type).value
                       ELSE b[type]
    IN  [id |-> b.id, primary |-> field("primary"),
         secondary |-> field("secondary"), accent |-> field("accent")]

\* the catalog brands that are not deleted, overrides applied, then the
\* user-created brands
brandsWithOverrides(a) ==
    LET kept == SelectSeq(BRANDS, LAMBDA b : b.id \notin a.deletedBrands)
    IN  [i \in 1..Len(kept) |-> ApplyOverride(kept[i], a.brandOverrides)]
        \o a.customBrands

\* list.find((b) => b.id === id), NoBrand standing for undefined
FindBrand(list, id) ==
    IF \E i \in 1..Len(list) : list[i].id = id
    THEN list[MinOf({i \in 1..Len(list) : list[i].id = id})]
    ELSE NoBrand

ListedIds(a) == {brandsWithOverrides(a)[i].id : i \in 1..Len(brandsWithOverrides(a))}

\* the brand the paint handlers use
selectedBrand(a) ==
    IF a.isCustomColorSelected
    THEN [id |-> "custom-color", primary |-> a.customColor,
          secondary |-> a.customColor, accent |-> CustomColorAccent]
    ELSE FindBrand(brandsWithOverrides(a), a.selectedBrandId)

handleBrandSelect(a, brandId) ==
    [a EXCEPT !.selectedBrandId = brandId, !.isCustomColorSelected = FALSE,
              !.lastSelected = brandId, !.justStarted = FALSE]

handleCustomColorSelect(a) ==
    [a EXCEPT !.isCustomColorSelected = TRUE, !.justStarted = FALSE]

handleAddNewBrand(a) ==
    LET newBrand == WithId(CustomBrandId(Len(a.customBrands) + 1), NewBrandColours)
    IN  [a EXCEPT !.customBrands = Append(@, newBrand),
                  !.selectedBrandId = newBrand.id,
                  !.isCustomColorSelected = FALSE,
                  !.lastSelected = newBrand.id, !.justStarted = FALSE]

handleBrandColorChange(a, brandId, colorType, value) ==
    [a EXCEPT !.brandOverrides =
                  {o \in @ : ~(o.id = brandId /\ o.type = colorType)}
                  \cup {[id |-> brandId, type |-> colorType, value |-> value]},
              !.justStarted = FALSE]

handleDeleteBrand(a, brandId) ==
    LET remainingBrands ==
            SelectSeq(BRANDS, LAMBDA b : b.id \notin a.deletedBrands /\ b.id # brandId)
        reselect == a.selectedBrandId = brandId /\ Len(remainingBrands) > 0
    IN  [a EXCEPT !.deletedBrands = @ \cup {brandId},
                  !.selectedBrandId = IF reselect THEN remainingBrands[1].id ELSE @,
                  !.lastSelected = IF reselect THEN remainingBrands[1].id ELSE @,
                  !.justStarted = FALSE]

handleResetBrand(a, brandId) ==
    [a EXCEPT !.brandOverrides = {o \in @ : o.id # brandId},
              !.justStarted = FALSE]

\* the colour functions are not being called
NoCall ==
    /\ pc = "app" /\ call = "app"
    /\ color = <<>> /\ brand = NoBrand /\ mode = "primary" /\ gradientId = Null
    /\ shape = NoShape /\ svgString = <<>> /\ result = <<>>
    /\ gradientId2 = Null /\ again = <<>>

\* the app has started in a browser that never ran it, and its effects have run
InitBrands ==
    /\ NoCall
    /\ app = Mount(EmptyStore, "none")
    /\ store = Persist(app, EmptyStore)
    /\ tasks = <<>>

\* a handler has run: the state is set, the component renders and its effects
\* write the state to localStorage
Rendered(a) ==
    /\ app' = a
    /\ store' = Persist(a, store)
    /\ UNCHANGED <<colorVars, tasks>>

BrandSelect == \E id \in ListedIds(app) : Rendered(handleBrandSelect(app, id))

CustomColorSelect == Rendered(handleCustomColorSelect(app))

AddNewBrand ==
    /\ Len(app.customBrands) < MaxCustomBrands
    /\ Rendered(handleAddNewBrand(app))

BrandColorChange ==
    \E id \in ListedIds(app) : \E type \in ColorTypes :
        /\ \/ \E o \in app.brandOverrides : o.id = id /\ o.type = type
           \/ Cardinality(app.brandOverrides) < MaxEdits
        /\ Rendered(handleBrandColorChange(app, id, type, EditedColour))

DeleteBrand == \E id \in ListedIds(app) : Rendered(handleDeleteBrand(app, id))

ResetBrand == \E id \in ListedIds(app) : Rendered(handleResetBrand(app, id))

\* the page is loaded again: the state is built from localStorage
Reload ==
    /\ app' = Mount(store, app.lastSelected)
    /\ store' = Persist(app', store)
    /\ UNCHANGED <<colorVars, tasks>>

NextBrands ==
    \/ BrandSelect \/ CustomColorSelect \/ AddNewBrand \/ BrandColorChange
    \/ DeleteBrand \/ ResetBrand \/ Reload

SpecBrands == InitBrands /\ [][NextBrands]_vars

(***************************************************************************)
(* Properties of the brand selection                                       *)
(***************************************************************************)

\* C22: when the app starts, the selected brand id it reads is the id that
\* was selected last, and the default brand 'rinvoq' when no brand was ever
\* selected.
C22_SelectionRemembered ==
    (app.mounted /\ app.justStarted) =>
        app.selectedBrandId = IF app.lastSelected = "none" THEN DEFAULT_BRAND_ID
                              ELSE app.lastSelected

\* the app started again after a brand other than the default was selected
C22_Witness ==
    /\ app.mounted /\ app.justStarted
    /\ app.lastSelected = "novartis"
    /\ app.selectedBrandId = "novartis"

\* the brand the list shows under the id b
ListedBrand(a, b) == FindBrand(brandsWithOverrides(a), b)

\* the brand b as the catalog holds it or as the user created it
UneditedBrand(a, b) == FindBrand(BRANDS \o a.customBrands, b)

\* C29: deleting a brand of the brand list, catalog or user-created, takes it
\* out of the list, and when it was the selected brand the selection moves to
\* a brand that is still listed, as long as one is left.
C29_DeleteKeepsSelection ==
    [][\A b \in ListedIds(app) :
          app' = handleDeleteBrand(app, b) =>
              /\ b \notin ListedIds(app')
              /\ (app.selectedBrandId = b /\ ListedIds(app') # {}) =>
                     app'.selectedBrandId \in ListedIds(app')]_vars

\* C30: editing a colour of a brand of the brand list, catalog or
\* user-created, gives the listed brand that colour and leaves its two other
\* colours alone, and resetting the brand gives it back its unedited colours.
C30_EditAndReset ==
    [][\A b \in ListedIds(app) :
          /\ \A type \in ColorTypes :
                 app' = handleBrandColorChange(app, b, type, EditedColour) =>
                     /\ ListedBrand(app', b)[type] = EditedColour
                     /\ \A other \in ColorTypes \ {type} :
                            ListedBrand(app', b)[other] = ListedBrand(app, b)[other]
          /\ app' = handleResetBrand(app, b) =>
                 ListedBrand(app', b) = UneditedBrand(app', b)]_vars

(***************************************************************************)
(* Properties of the two classifiers                                       *)
(***************************************************************************)

\* the token, normalized, is # and three or six hexadecimal digits, or is
\* rgb(r,g,b) with decimal channels
WellFormedRgb(c) ==
    /\ Truthy(c)
    /\ \E n \in {normalizeColor(c)} :
          \/ /\ Len(n) \in {4, 7}
             /\ n[1] = "#"
             /\ \A i \in 2..Len(n) : IsHex(n[i])
          \/ \E groups \in {RgbMatchAt(n, 1)} :
                /\ groups # <<>>
                /\ Len(n) = 7 + Len(groups[1]) + Len(groups[2]) + Len(groups[3])

\* the largest pairwise difference of the channels
MaxChannelDiff(rgb) ==
    Max3(Abs(rgb.r - rgb.g), Abs(rgb.g - rgb.b), Abs(rgb.r - rgb.b))

\* C23: isChromatic is true exactly of the tokens that parse to an RGB triple
\* (#rgb, #rrggbb or rgb(r,g,b)) whose largest pairwise channel difference is
\* greater than 10; a difference of exactly 10 and every token that does not
\* parse give false.
C23_ChromaticExact ==
    Returned =>
        (isChromatic(color) <=>
            /\ WellFormedRgb(color)
            /\ MaxChannelDiff(parseColorToRgb(color)) > 10)

\* C24: isDarkColor is true exactly of the tokens that parse to an RGB triple
\* with 299r + 587g + 114b < 80000, that is with luminance below 80; a
\* luminance of exactly 80 and every token that does not parse give false.
C24_DarkExact ==
    Returned =>
        (isDarkColor(color) <=>
            /\ WellFormedRgb(color)
            /\ \E rgb \in {parseColorToRgb(color)} :
                   299 * rgb.r + 587 * rgb.g + 114 * rgb.b < 80000)

---------------------------------------------------------------------------
(* The App component: the workspace icons and the icon library *)

\* how many files the user uploads while the workspace is painted, and how
\* many while only the library is watched
MaxIcons == 1
MaxUploads == 2

\* null, where an id or a mode is expected
NullId == "null"

\* the modes the icon card offers
CardModes == {"primary", "secondary", "gradient"}

\* the gradient id a mode change of the card generates
CardGradientIdsOf(m) ==
    IF m = "gradient" THEN {<<"g","r","a","d","i","e","n","t","-","1","-","k","3","x">>}
    ELSE {Null}

\* the text of the uploaded file: <svg id="s"><path id="p" fill="#666"/></svg>
UploadedFile ==
    MarkupOf([construct |-> "attr", prop |-> <<"f","i","l","l">>, quote |-> "\"",
              pad |-> 0, head |-> HeadNone, tok |-> <<"#","6","6","6">>])

NoRecolor == [none |-> TRUE]

\* processSvgFiles: one icon per file, with an id of its own and the text of
\* the file as original and as current content. The last six fields record
\* the history of the icon: the content and the way it entered the workspace,
\* the brand id it was uploaded with, the brand it was painted with, the last
\* recolouring made (brand, mode, gradient id), and the last mode change
\* asked for.
processSvgFiles(n) ==
    [id |-> n, originalContent |-> UploadedFile, currentContent |-> UploadedFile,
     isPainted |-> FALSE, paintedWith |-> NullId, colorMode |-> NullId,
     isLocked |-> FALSE, isCustomBrand |-> FALSE,
     entered |-> UploadedFile, via |-> "upload", uploadedWith |-> NullId,
     paintedBrand |-> NoBrand,
     recolor |-> NoRecolor, asked |-> NoRecolor]

\* iconsWithMetadata: an icon uploaded in custom-brand mode is marked as
\* painted with the brand chosen in the drop zone, and locked
WithMetadata(icon, isCustomBrand, customBrandId) ==
    [icon EXCEPT !.isCustomBrand = isCustomBrand,
                 !.isPainted = isCustomBrand,
                 !.paintedWith = IF isCustomBrand THEN customBrandId ELSE NullId,
                 !.isLocked = isCustomBrand,
                 !.uploadedWith = IF isCustomBrand THEN customBrandId ELSE NullId]

IconIds(icons) == {icons[i].id : i \in 1..Len(icons)}

\* the icon painted with the brand b in mode 'primary'
Painted(icon, b) ==
    [icon EXCEPT !.currentContent = recolorSvg(icon.originalContent, b, "primary", Null),
                 !.paintedWith = b.id,
                 !.isPainted = TRUE,
                 !.colorMode = "primary",
                 !.paintedBrand = b,
                 !.recolor = [brand |-> b, mode |-> "primary", gid |-> Null],
                 !.asked = NoRecolor]

handlePaintIcon(a, iconId) ==
    IF selectedBrand(a) = NoBrand THEN a
    ELSE [a EXCEPT !.icons =
            [i \in 1..Len(@) |-> IF @[i].id = iconId
                                 THEN Painted(@[i], selectedBrand(a)) ELSE @[i]]]

handlePaintAll(a) ==
    IF selectedBrand(a) = NoBrand \/ Len(a.icons) = 0 THEN a
    ELSE [a EXCEPT !.icons = [i \in 1..Len(@) |-> Painted(@[i], selectedBrand(a))]]

\* a plausible slip: the mode change recolours the current content
handleColorModeChange_fromCurrent(a, iconId, m, gid) ==
    LET changed(icon) ==
            LET b == FindBrand(brandsWithOverrides(a), icon.paintedWith)
            IN  IF ~icon.isPainted \/ icon.paintedWith = NullId \/ icon.paintedWith = ""
                THEN [icon EXCEPT !.asked = [mode |-> m, gid |-> gid]]
                ELSE IF b = NoBrand
                THEN [icon EXCEPT !.asked = [mode |-> m, gid |-> gid]]
                ELSE [icon EXCEPT
                        !.currentContent = recolorSvg(icon.currentContent, b, m, gid),
                        !.colorMode = m,
                        !.recolor = [brand |-> b, mode |-> m, gid |-> gid],
                        !.asked = [mode |-> m, gid |-> gid]]
    IN  [a EXCEPT !.icons =
            [i \in 1..Len(@) |-> IF @[i].id = iconId THEN changed(@[i]) ELSE @[i]]]

\* handleColorModeChange, gid being the gradient id recolorSvg generates
handleColorModeChange(a, iconId, m, gid) ==
    LET changed(icon) ==
            LET b == FindBrand(brandsWithOverrides(a), icon.paintedWith)
            IN  IF ~icon.isPainted \/ icon.paintedWith = NullId \/ icon.paintedWith = ""
                THEN [icon EXCEPT !.asked = [mode |-> m, gid |-> gid]]
                ELSE IF b = NoBrand
                THEN [icon EXCEPT !.asked = [mode |-> m, gid |-> gid]]
                ELSE [icon EXCEPT
                        !.currentContent = recolorSvg(icon.originalContent, b, m, gid),
                        !.colorMode = m,
                        !.recolor = [brand |-> b, mode |-> m, gid |-> gid],
                        !.asked = [mode |-> m, gid |-> gid]]
    IN  [a EXCEPT !.icons =
            [i \in 1..Len(@) |-> IF @[i].id = iconId THEN changed(@[i]) ELSE @[i]]]

handleRemoveIcon(a, iconId) ==
    [a EXCEPT !.icons = SelectSeq(@, LAMBDA icon : icon.id # iconId)]

handleClearAll(a) == [a EXCEPT !.icons = <<>>]

\* the library icon enters the workspace unpainted
handleAddFromLibrary(a, icon) ==
    IF icon.id \in IconIds(a.icons) THEN a
    ELSE [a EXCEPT !.icons = Append(@,
            [icon EXCEPT !.currentContent = icon.originalContent,
                         !.isPainted = FALSE,
                         !.paintedWith = NullId,
                         !.colorMode = NullId,
                         !.entered = icon.originalContent,
                         !.via = "library",
                         !.paintedBrand = NoBrand,
                         !.recolor = NoRecolor,
                         !.asked = NoRecolor])]

\* handleFilesAdded up to its call of loadIcons: the file is processed, the
\* icon enters the workspace, and the rest of the handler waits for the library
FilesAdded(isCustomBrand, customBrandId) ==
    LET newIcons == << WithMetadata(processSvgFiles(Len(tasks) + 1),
                                    isCustomBrand, customBrandId) >>
    IN  /\ app' = [app EXCEPT !.icons = @ \o newIcons]
        /\ tasks' = Append(tasks, [pc |-> "loadIcons", iconsWithMetadata |-> newIcons,
                                   existingIcons |-> <<>>])
        /\ store' = Persist(app', store)
        /\ UNCHANGED colorVars

\* loadIcons reads the library; the handler keeps the new icons whose id the
\* library does not hold, and has them saved if there are any
LoadIcons ==
    \E t \in 1..Len(tasks) :
        /\ tasks[t].pc = "loadIcons"
        /\ LET uniqueNewIcons ==
                   SelectSeq(tasks[t].iconsWithMetadata,
                             LAMBDA icon : icon.id \notin IconIds(store.icons))
           IN  tasks' = [tasks EXCEPT
                           ![t].existingIcons = store.icons,
                           ![t].iconsWithMetadata = uniqueNewIcons,
                           ![t].pc = IF Len(uniqueNewIcons) > 0 THEN "saveIcons"
                                     ELSE "done"]
        /\ UNCHANGED <<colorVars, app, store>>

\* saveIcons: one transaction clears the library and writes the list
SaveIcons ==
    \E t \in 1..Len(tasks) :
        /\ tasks[t].pc = "saveIcons"
        /\ store' = [store EXCEPT
                       !.icons = tasks[t].existingIcons \o tasks[t].iconsWithMetadata]
        /\ tasks' = [tasks EXCEPT ![t].pc = "done"]
        /\ UNCHANGED <<colorVars, app>>

\* a handler of the workspace has run and the component has rendered
WorkspaceRendered(a) ==
    /\ app' = a
    /\ store' = Persist(a, store)
    /\ UNCHANGED <<colorVars, tasks>>

UploadFiles ==
    /\ Len(tasks) < MaxIcons
    /\ FilesAdded(FALSE, NullId)

\* the brand chosen in the drop zone for a custom-brand upload: none yet (the
\* empty value the selector starts with), or the listed brand 'novartis'
DropZoneBrandIds(a) == {""} \cup (ListedIds(a) \cap {"novartis"})

UploadCustomBrandFiles ==
    /\ Len(tasks) < MaxIcons
    /\ \E customBrandId \in DropZoneBrandIds(app) : FilesAdded(TRUE, customBrandId)

\* the paint button of an icon card, which acts on an unpainted icon only
PaintIcon ==
    \E i \in 1..Len(app.icons) :
        /\ selectedBrand(app) # NoBrand
        /\ ~app.icons[i].isPainted
        /\ WorkspaceRendered(handlePaintIcon(app, app.icons[i].id))

PaintAll ==
    /\ selectedBrand(app) # NoBrand
    /\ Len(app.icons) > 0
    /\ WorkspaceRendered(handlePaintAll(app))

\* the mode buttons of an icon card, which act on a painted icon only
ColorModeChange ==
    \E i \in 1..Len(app.icons) : \E m \in CardModes : \E gid \in CardGradientIdsOf(m) :
        /\ app.icons[i].isPainted
        /\ WorkspaceRendered(handleColorModeChange(app, app.icons[i].id, m, gid))

RemoveIcon ==
    \E i \in 1..Len(app.icons) :
        WorkspaceRendered(handleRemoveIcon(app, app.icons[i].id))

ClearAll ==
    /\ Len(app.icons) > 0
    /\ WorkspaceRendered(handleClearAll(app))

\* the library drawer, which offers the icons that are not in the workspace
AddFromLibrary ==
    \E k \in 1..Len(store.icons) :
        /\ store.icons[k].id \notin IconIds(app.icons)
        /\ WorkspaceRendered(handleAddFromLibrary(app, store.icons[k]))

NextWorkspace ==
    \/ UploadFiles \/ UploadCustomBrandFiles \/ LoadIcons \/ SaveIcons
    \/ PaintIcon \/ PaintAll \/ ColorModeChange
    \/ RemoveIcon \/ ClearAll \/ AddFromLibrary
    \/ BrandSelect \/ CustomColorSelect \/ AddNewBrand

SpecWorkspace == InitBrands /\ [][NextWorkspace]_vars

(***************************************************************************)
(* Properties of the workspace (SpecWorkspace)                             *)
(***************************************************************************)

WorkspaceIcons == {app.icons[i] : i \in 1..Len(app.icons)}

\* C25: whatever was uploaded, painted, painted all at once, changed in mode,
\* added from the library, removed or cleared, the originalContent of every
\* workspace icon is the content it entered the workspace with, and the
\* currentContent of a recoloured icon is the recolouring of that content by
\* the brand and mode of its last recolouring.
C25_OriginalKept ==
    \A icon \in WorkspaceIcons :
        /\ icon.originalContent = icon.entered
        /\ icon.recolor # NoRecolor =>
               icon.currentContent =
                   recolorSvg(icon.entered, icon.recolor.brand, icon.recolor.mode,
                              icon.recolor.gid)

\* an icon that was painted and then changed to the gradient mode
C25_Witness ==
    \E icon \in WorkspaceIcons :
        /\ icon.recolor # NoRecolor
        /\ icon.recolor.mode = "gradient"
        /\ icon.asked # NoRecolor
        /\ icon.currentContent # icon.originalContent

\* C26: a mode change asked for a painted icon, whatever painted it (a
\* catalog brand, a user-created brand or the quick custom colour), leaves
\* the icon in the mode asked for, recoloured from its original content with
\* the brand that painted it.
C26_ModeChangeRecolours ==
    \A icon \in WorkspaceIcons :
        (icon.paintedBrand # NoBrand /\ icon.asked # NoRecolor) =>
            /\ icon.colorMode = icon.asked.mode
            /\ icon.currentContent =
                   recolorSvg(icon.originalContent, icon.paintedBrand,
                              icon.asked.mode, icon.asked.gid)

\* C27: an icon uploaded in custom-brand mode is locked: while it is in the
\* workspace, painting, painting all and mode changes leave its
\* currentContent, paintedWith and colorMode as the upload set them.
C27_LockedIconKept ==
    \A icon \in WorkspaceIcons :
        (icon.via = "upload" /\ icon.isCustomBrand) =>
            /\ icon.currentContent = icon.entered
            /\ icon.paintedWith = icon.uploadedWith
            /\ icon.colorMode = NullId

---------------------------------------------------------------------------
(* The icon library under overlapping uploads *)

\* an icon a former session left in the library
StoredIcon == processSvgFiles(0)

\* the app has started; the library is empty or holds the icon of a former
\* session, which the field before keeps for the record
InitLibrary ==
    /\ NoCall
    /\ \E stored \in {<<>>, <<StoredIcon>>} :
          /\ app = Mount([EmptyStore EXCEPT !.icons = stored], "none")
          /\ store = Persist(app, [EmptyStore EXCEPT !.icons = stored])
    /\ tasks = <<>>

\* files are dropped, in either mode, while earlier uploads may be under way
UploadToLibrary ==
    /\ Len(tasks) < MaxUploads
    /\ \/ FilesAdded(FALSE, NullId)
       \/ \E customBrandId \in DropZoneBrandIds(app) : FilesAdded(TRUE, customBrandId)

NextLibrary == UploadToLibrary \/ LoadIcons \/ SaveIcons

SpecLibrary == InitLibrary /\ [][NextLibrary]_vars

\* every call of handleFilesAdded has completed
UploadsDone == \A t \in 1..Len(tasks) : tasks[t].pc = "done"

\* C28: no uploaded icon is lost: when the calls of handleFilesAdded have
\* completed, overlapping or not, the library holds the icon of every upload
\* and every icon it held before.
C28_NoIconLost ==
    UploadsDone =>
        /\ \A t \in 1..Len(tasks) : t \in IconIds(store.icons)
        /\ IconIds(app.library) \subseteq IconIds(store.icons)

===========================================================================
